---------------------------- MODULE Spec2Model ----------------------------
(***************************************************************************)
(* State-machine model of the counting environment SingleAgentEnv          *)
(* (src/src/SingleAgentEnv.py): scene generation, the action-code table,   *)
(* the two finger layers, the external representation, reset() and step(). *)
(* Grids are functions from cells <<x, y>> to integers.  Random draws are  *)
(* nondeterministic choices over every value the draw can return.          *)
(***************************************************************************)
EXTENDS Integers, Sequences, FiniteSets, TLC

(***************************************************************************)
(* Bounds of the explored configurations.                                  *)
(***************************************************************************)
MaxObsDim == 3
MaxObjects == 3
MaxObjectSize == 2
MaxLabels == 2
MaxEpisodeLength == 2

\* default_eps, in tenths (the default value .1 of the constructor).
DefaultEps == 1

\* The number of named (non-label) actions: 1 mark + 4 + 4 finger moves.
NamedActions == 9

\* Values of random.random(), in tenths, on both sides of default_eps.
Samples == {0, 1, 2, 9}

(***************************************************************************)
(* Grids                                                                   *)
(***************************************************************************)
Cells(dim) == (0 .. dim - 1) \X (0 .. dim - 1)

Zeros(dim) == [p \in Cells(dim) |-> 0]

Abs(v) == IF v < 0 THEN 0 - v ELSE v

Neighbours(p) ==
    { <<p[1] + 1, p[2]>>, <<p[1], p[2] + 1>>,
      <<p[1] - 1, p[2]>>, <<p[1], p[2] - 1>> }

(***************************************************************************)
(* Scene generation                                                        *)
(***************************************************************************)
\* A variant of _check_squares_intersection_adjacency that forgets the
\* neighbours below and to the left of a cell.
CheckTwoNeighboursOnly(picture_squares_coordinates, new_square_coordinates) ==
    \/ Cardinality(picture_squares_coordinates
                   \cap new_square_coordinates) > 0
    \/ \E p \in new_square_coordinates :
           \/ <<p[1] + 1, p[2]>> \in picture_squares_coordinates
           \/ <<p[1], p[2] + 1>> \in picture_squares_coordinates

\* _check_squares_intersection_adjacency: TRUE when the new square overlaps
\* or touches (4-adjacency) a cell already in the picture.
CheckSquaresIntersectionAdjacency(picture_squares_coordinates, new_square_coordinates) ==
    \/ Cardinality(picture_squares_coordinates
                   \cap new_square_coordinates) > 0
    \/ \E p \in new_square_coordinates :
           \/ <<p[1] + 1, p[2]>> \in picture_squares_coordinates
           \/ <<p[1], p[2] + 1>> \in picture_squares_coordinates
           \/ <<p[1] - 1, p[2]>> \in picture_squares_coordinates
           \/ <<p[1], p[2] - 1>> \in picture_squares_coordinates

\* _point_out_of_picture: only the lower bounds are tested.
PointOutOfPicture(point) == (point[1] < 0) \/ (point[2] < 0)

\* A variant of _check_square_can_fit that does not look at the cells
\* around the window.
CheckSquareCanFitCellsOnly(obs_dim, square_size, picture_squares_coordinates) ==
    \E col_start \in 0 .. (obs_dim - square_size) :
    \E row_start \in 0 .. (obs_dim - square_size) :
        LET intersection_points ==
                (col_start .. col_start + square_size - 1)
                    \X (row_start .. row_start + square_size - 1)
        IN  Cardinality(intersection_points
                        \cap picture_squares_coordinates) = 0

\* _check_square_can_fit: some window of the size has its cells and their
\* outer 4-neighbours free.
CheckSquareCanFit(obs_dim, square_size, picture_squares_coordinates) ==
    \E col_start \in 0 .. (obs_dim - square_size) :
    \E row_start \in 0 .. (obs_dim - square_size) :
        LET intersection_points ==
                (col_start .. col_start + square_size - 1)
                    \X (row_start .. row_start + square_size - 1)
            adjacency_points ==
                { q \in UNION { Neighbours(p) : p \in intersection_points } :
                      ~ (PointOutOfPicture(q) \/ q \in intersection_points) }
        IN  /\ Cardinality(intersection_points
                           \cap picture_squares_coordinates) = 0
            /\ Cardinality(adjacency_points
                           \cap picture_squares_coordinates) = 0

\* The cells of the square with the given upper left point.
SquareAt(upper_left_point, size) ==
    { <<upper_left_point[1] + x, upper_left_point[2] + y>> :
          x \in 0 .. size - 1, y \in 0 .. size - 1 }

\* _generate_square: the squares the method can return, one for every
\* upper left point the sampler can draw that passes the point check.
GenerateSquare(obs_dim, size, picture_objects_coordinates) ==
    { SquareAt(upper_left_point, size) :
        upper_left_point \in
            { u \in (0 .. obs_dim - size) \X (0 .. obs_dim - size) :
                ~ CheckSquaresIntersectionAdjacency(
                      picture_objects_coordinates, {u}) } }

\* The squares the inner sampling loop of _generate_observation commits.
ValidPicture(picture_objects_coordinates, object_coordinates) ==
    ~ CheckSquaresIntersectionAdjacency(picture_objects_coordinates,
                                        object_coordinates)

\* A variant of the object count draw without the shift by one.
ChooseNObjectsFromZero(c) ==
    IF c.generate_random_nobj
    THEN 0 .. c.max_episode_objects - 1
    ELSE {c.max_episode_objects}

\* The number of objects requested for one scene.
ChooseNObjects(c) ==
    IF c.generate_random_nobj
    THEN 1 .. c.max_episode_objects
    ELSE {c.max_episode_objects}

\* A variant of the size draw that can exceed max_object_size by one.
ChooseObjectSizeInclusive(c) ==
    IF c.random_object_size THEN 1 .. c.max_object_size + 1 ELSE {1}

\* The size requested for one object.
ChooseObjectSize(c) ==
    IF c.random_object_size THEN 1 .. c.max_object_size ELSE {1}

\* A variant of the early ending update that forgets the failing object.
EarlyEndingCountOffByOne(objects_drawn, n_objects, n) ==
    objects_drawn - (n_objects - n)

\* The update of objects_drawn when no square of size 1 fits for object n.
EarlyEndingCount(objects_drawn, n_objects, n) ==
    objects_drawn - ((n_objects - n) + 1)

\* The local state of _generate_observation before the for loop;
\* squares and committed record the commits of line 296, and warnings
\* the calls of warnings.warn.
GenStart(c) ==
    { [ pc |-> "for", n |-> 1, n_objects |-> k, objects_drawn |-> k,
        object_size |-> 0, early_ending |-> FALSE,
        picture_objects_coordinates |-> {}, squares |-> {},
        committed |-> 0, warnings |-> 0 ] : k \in ChooseNObjects(c) }

\* One step of the loops of _generate_observation from local state g.
GenStep(c, g) ==
    IF g.pc = "for"
    THEN IF g.n > g.n_objects \/ g.early_ending
         THEN { [g EXCEPT !.pc = "end"] }
         ELSE { [g EXCEPT !.pc = "while", !.object_size = s] :
                    s \in ChooseObjectSize(c) }
    ELSE IF g.pc = "while"
    THEN IF CheckSquareCanFit(c.obs_dim, g.object_size,
                              g.picture_objects_coordinates)
         THEN { [g EXCEPT !.pc = "for", !.n = g.n + 1,
                     !.picture_objects_coordinates = @ \cup sq,
                     !.squares = @ \cup {sq},
                     !.committed = @ + 1] :
                  sq \in { s \in GenerateSquare(c.obs_dim, g.object_size,
                                       g.picture_objects_coordinates) :
                             ValidPicture(g.picture_objects_coordinates, s) } }
         ELSE IF g.object_size - 1 = 0
              THEN { [g EXCEPT !.pc = "for", !.n = g.n + 1,
                          !.object_size = 0,
                          !.early_ending = TRUE,
                          !.objects_drawn =
                              EarlyEndingCount(@, g.n_objects, g.n),
                          !.warnings = @ + 1] }
              ELSE { [g EXCEPT !.object_size = @ - 1] }
    ELSE {g}

\* All local states in which _generate_observation can leave its loops.
RECURSIVE GenRun(_, _)
GenRun(c, gs) ==
    IF \A g \in gs : g.pc = "end"
    THEN gs
    ELSE GenRun(c, UNION { GenStep(c, g) : g \in gs })

\* A variant of _generate_observation that reports the number of occupied
\* cells as the label.
GenerateObservationCellCount(c) ==
    { [ obs |-> [p \in Cells(c.obs_dim) |->
                    IF p \in g.picture_objects_coordinates THEN 1 ELSE 0],
        obs_label |-> Cardinality(g.picture_objects_coordinates),
        squares |-> g.squares,
        committed |-> g.committed,
        n_objects |-> g.n_objects,
        warnings |-> g.warnings ] : g \in GenRun(c, GenStart(c)) }

\* _generate_observation: the possible results (obs, obs_label).
GenerateObservation(c) ==
    { [ obs |-> [p \in Cells(c.obs_dim) |->
                    IF p \in g.picture_objects_coordinates THEN 1 ELSE 0],
        obs_label |-> g.objects_drawn,
        squares |-> g.squares,
        committed |-> g.committed,
        n_objects |-> g.n_objects,
        warnings |-> g.warnings ] : g \in GenRun(c, GenStart(c)) }

(***************************************************************************)
(* The action table                                                        *)
(***************************************************************************)
Digit(d) ==
    CASE d = 0 -> "0" [] d = 1 -> "1" [] d = 2 -> "2" [] d = 3 -> "3"
      [] d = 4 -> "4" [] d = 5 -> "5" [] d = 6 -> "6" [] d = 7 -> "7"
      [] d = 8 -> "8" [] d = 9 -> "9"

\* str(label) for a non-negative integer.
RECURSIVE Str(_)
Str(label) ==
    IF label < 10 THEN Digit(label)
    ELSE Str(label \div 10) \o Digit(label % 10)

\* A variant of the claiming loop that does not test whether a code is
\* still empty.
RECURSIVE ClaimAnyCode(_, _, _, _, _)
ClaimAnyCode(env_actions_dict, actions, k, i, action_codes) ==
    IF k \notin DOMAIN env_actions_dict
    THEN [ actions_dict |-> env_actions_dict, action_codes |-> action_codes ]
    ELSE IF i < Len(actions)
         THEN ClaimAnyCode([env_actions_dict EXCEPT ![k] = actions[i + 1]],
                           actions, k + 1, i + 1, action_codes \cup {k})
         ELSE ClaimAnyCode(env_actions_dict, actions, k + 1, i, action_codes)

\* The loop shared by the two component constructors: walk the table in
\* ascending code order and give the next empty code to the next action.
RECURSIVE ClaimActionCodes(_, _, _, _, _)
ClaimActionCodes(env_actions_dict, actions, k, i, action_codes) ==
    IF k \notin DOMAIN env_actions_dict
    THEN [ actions_dict |-> env_actions_dict, action_codes |-> action_codes ]
    ELSE IF env_actions_dict[k] = "" /\ i < Len(actions)
         THEN ClaimActionCodes([env_actions_dict EXCEPT ![k] = actions[i + 1]],
                               actions, k + 1, i + 1, action_codes \cup {k})
         ELSE ClaimActionCodes(env_actions_dict, actions, k + 1, i,
                               action_codes)

\* A variant of the label loop that does not advance the label.
RECURSIVE FillLabelsConstant(_, _, _)
FillLabelsConstant(actions_dict, k, label) ==
    IF k \notin DOMAIN actions_dict
    THEN actions_dict
    ELSE IF actions_dict[k] = ""
         THEN FillLabelsConstant([actions_dict EXCEPT ![k] = Str(label)],
                                 k + 1, label)
         ELSE FillLabelsConstant(actions_dict, k + 1, label)

\* The loop of __init__ that names the codes left empty "1", "2", ...
RECURSIVE FillLabels(_, _, _)
FillLabels(actions_dict, k, label) ==
    IF k \notin DOMAIN actions_dict
    THEN actions_dict
    ELSE IF actions_dict[k] = ""
         THEN FillLabels([actions_dict EXCEPT ![k] = Str(label)],
                         k + 1, label + 1)
         ELSE FillLabels(actions_dict, k + 1, label)

(***************************************************************************)
(* FingerLayer                                                             *)
(***************************************************************************)
OneHot(layer_dim, pos_x, pos_y) ==
    [p \in Cells(layer_dim) |-> IF p = <<pos_x, pos_y>> THEN 1 ELSE 0]

\* A variant of the initial positions that draws from 0 .. layer_dim.
FingerInitPositionsInclusive(layer_dim, random_finger_position) ==
    IF random_finger_position
    THEN (0 .. layer_dim) \X (0 .. layer_dim)
    ELSE { <<0, 0>> }

\* The initial positions the constructor can choose.
FingerInitPositions(layer_dim, random_finger_position) ==
    IF random_finger_position
    THEN (0 .. layer_dim - 1) \X (0 .. layer_dim - 1)
    ELSE { <<0, 0>> }

FingerActions(layer_name) ==
    << layer_name \o "_left", layer_name \o "_right",
       layer_name \o "_up", layer_name \o "_down" >>

\* FingerLayer.__init__ with the drawn position pos: the new layer and
\* the action table after the layer has claimed its codes.
FingerLayerInit(layer_name, layer_dim, env_actions_dict, pos) ==
    LET claim == ClaimActionCodes(env_actions_dict, FingerActions(layer_name),
                                  0, 0, {})
    IN  [ layer |-> [ layer_dim |-> layer_dim,
                      max_x |-> layer_dim - 1,
                      max_y |-> layer_dim - 1,
                      pos_x |-> pos[1],
                      pos_y |-> pos[2],
                      fingerlayer |-> OneHot(layer_dim, pos[1], pos[2]),
                      action_codes |-> claim.action_codes ],
          actions_dict |-> claim.actions_dict ]

\* FingerLayer.step
FingerLayerStep(self, move_action, actions_dict) ==
    LET move_action_str == actions_dict[move_action]
        pos_x == IF move_action_str = "right"
                 THEN (IF self.pos_x < self.max_x
                       THEN self.pos_x + 1 ELSE self.pos_x)
                 ELSE IF move_action_str = "left"
                 THEN (IF self.pos_x > 0 THEN self.pos_x - 1 ELSE self.pos_x)
                 ELSE self.pos_x
        pos_y == IF move_action_str = "right" \/ move_action_str = "left"
                 THEN self.pos_y
                 ELSE IF move_action_str = "up"
                 THEN (IF self.pos_y > 0 THEN self.pos_y - 1 ELSE self.pos_y)
                 ELSE IF move_action_str = "down"
                 THEN (IF self.pos_y < self.max_y
                       THEN self.pos_y + 1 ELSE self.pos_y)
                 ELSE self.pos_y
    IN  [self EXCEPT !.pos_x = pos_x, !.pos_y = pos_y,
                     !.fingerlayer = OneHot(self.layer_dim, pos_x, pos_y)]

(***************************************************************************)
(* ExternalRepresentation                                                  *)
(***************************************************************************)
\* ExternalRepresentation.__init__
ExternalRepresentationInit(layer_dim, env_actions_dict) ==
    LET claim == ClaimActionCodes(env_actions_dict, << "mod_point" >>,
                                  0, 0, {})
    IN  [ layer |-> [ layer_dim |-> layer_dim,
                      external_representation |-> Zeros(layer_dim),
                      action_codes |-> claim.action_codes ],
          actions_dict |-> claim.actions_dict ]

\* A variant of draw_point that toggles the cell.
DrawPointToggle(self, pos) ==
    [self EXCEPT !.external_representation[pos] = Abs(@ - 1)]

\* ExternalRepresentation.draw_point
DrawPoint(self, pos) ==
    [self EXCEPT !.external_representation[pos] = @ + Abs(@ - 1)]

(***************************************************************************)
(* Configurations                                                          *)
(***************************************************************************)
AllConfigs ==
    [ obs_dim : 1 .. MaxObsDim,
      max_episode_objects : 1 .. MaxObjects,
      max_object_size : 1 .. MaxObjectSize,
      generate_random_nobj : BOOLEAN,
      random_object_size : BOOLEAN,
      random_finger_position : BOOLEAN,
      n_actions : NamedActions .. NamedActions + MaxLabels,
      max_episode_length : 1 .. MaxEpisodeLength ]

\* One fixed single-cell object per scene.
PlainScene(c) ==
    /\ c.max_episode_objects = 1
    /\ c.max_object_size = 1
    /\ ~ c.generate_random_nobj
    /\ ~ c.random_object_size

\* Fingers start at (0, 0), all labels, episodes of one step.
PlainEnv(c) ==
    /\ ~ c.random_finger_position
    /\ c.n_actions = NamedActions + MaxLabels
    /\ c.max_episode_length = 1

\* The explored constructor arguments.  Every scene setting is explored
\* with the plain environment setting, and every environment setting with
\* the plain scene.  max_object_size is read only when random_object_size
\* is set, so it is 1 otherwise.  Random finger placement is explored on
\* the 2 x 2 grid, and grids larger than 3 x 3 with the plain scene.
Configs ==
    { c \in AllConfigs :
        /\ PlainScene(c) \/ PlainEnv(c)
        /\ ~ c.random_object_size => c.max_object_size = 1
        /\ c.random_finger_position =>
               /\ c.obs_dim = 2
               /\ c.n_actions = NamedActions + MaxLabels
               /\ c.max_episode_length = MaxEpisodeLength
        /\ c.obs_dim > 3 => PlainScene(c) }

\* The constructor arguments of the training driver for the phase of
\* n_objects objects, on a grid of 2 x 2 cells with squares of one cell
\* and a fixed number of requested objects: one label for every object
\* count of the curriculum.
TrainEnvConfig(n_objects, max_episode_length) ==
    [ obs_dim |-> 2, max_episode_objects |-> n_objects,
      max_object_size |-> 1, generate_random_nobj |-> FALSE,
      random_object_size |-> FALSE, random_finger_position |-> FALSE,
      n_actions |-> NamedActions + MaxLabels,
      max_episode_length |-> max_episode_length ]

TrainEnvConfigs ==
    { TrainEnvConfig(n, l) : n \in 1 .. MaxLabels, l \in 1 .. MaxEpisodeLength }

\* The constructor arguments of a scene of at most two single-cell
\* objects on a grid of 4 x 4 cells.
ScenarioConfig(random_nobj, random_size) ==
    [ obs_dim |-> 4, max_episode_objects |-> 2, max_object_size |-> 1,
      generate_random_nobj |-> random_nobj,
      random_object_size |-> random_size,
      random_finger_position |-> FALSE,
      n_actions |-> NamedActions + MaxLabels,
      max_episode_length |-> 1 ]

ScenarioConfigs ==
    { ScenarioConfig(r, s) : r \in BOOLEAN, s \in BOOLEAN }

\* The constructor arguments with fewer codes than the nine named actions,
\* on a grid of 2 x 2 cells with one single-cell object.
TruncatedConfigs ==
    [ obs_dim : {2}, max_episode_objects : {1}, max_object_size : {1},
      generate_random_nobj : {FALSE}, random_object_size : {FALSE},
      random_finger_position : BOOLEAN,
      n_actions : 0 .. NamedActions - 1,
      max_episode_length : {1} ]

\* The results of _generate_observation for every configuration, as a
\* table that is computed once.
GenTable ==
    [c \in Configs \cup TrainEnvConfigs \cup ScenarioConfigs
            \cup TruncatedConfigs |->
        GenerateObservation(c)] @@ << >>

(***************************************************************************)
(* Action selection and reward                                             *)
(***************************************************************************)
\* q_values.max(1)[1].item(): the code of the largest q value.
ArgMax(q_values) ==
    CHOOSE a \in 0 .. Len(q_values) - 1 :
        /\ \A b \in 0 .. Len(q_values) - 1 : q_values[b + 1] <= q_values[a + 1]
        /\ \A b \in 0 .. a - 1 : q_values[b + 1] < q_values[a + 1]

\* A variant of _epsilon_greedy_action_selection with the comparison
\* reversed.
EpsilonGreedyReversed(q_values, eps, sample, rnd) ==
    IF sample < eps THEN ArgMax(q_values) ELSE rnd

\* _epsilon_greedy_action_selection with the draws sample = random.random()
\* and rnd = random.randrange(n_actions); eps and sample are in tenths.
EpsilonGreedyActionSelection(q_values, eps, sample, rnd) ==
    IF sample > eps THEN ArgMax(q_values) ELSE rnd

\* A variant of _softmax_action_selection that treats a negative
\* temperature like a small positive one.
SoftmaxNegativeClamped(q_values, temperature, choice) ==
    IF temperature = 0
    THEN [raised |-> "AttributeError", action |-> -1]
    ELSE [raised |-> "none", action |-> choice]

\* _softmax_action_selection with the draw choice = np.random.choice(...,
\* p = softmax(-q_values / temperature)); every code has a probability
\* above 0 in exact arithmetic.  It returns the action, or -1 and the
\* exception that was raised.  The class has no attribute
\* eps_greedy_modified, so the call made for temperature 0 raises
\* AttributeError.
SoftmaxActionSelection(q_values, temperature, choice) ==
    IF temperature < 0
    THEN [raised |-> "Exception", action |-> -1]
    ELSE IF temperature = 0
         THEN [raised |-> "AttributeError", action |-> -1]
         ELSE [raised |-> "none", action |-> choice]

\* The q vector that is largest at code a.
PeakAt(n, a) == [i \in 1 .. n |-> IF i = a + 1 THEN 1 ELSE 0]

\* The inputs of one action selection <<q_values, sample, rnd>>.  A draw
\* the selected branch does not read is fixed, since it cannot change the
\* result: rnd in the greedy branch, q_values in the random branch.
SelectionInputs(n, eps) ==
    { <<PeakAt(n, a), sample, 0>> :
          a \in 0 .. n - 1, sample \in { s \in Samples : s > eps } }
    \cup
    { <<PeakAt(n, 0), sample, rnd>> :
          rnd \in 0 .. n - 1, sample \in { s \in Samples : ~ (s > eps) } }

\* Reward.get_reward, the correct_label flag: the action is the numeric
\* label of the object count of the scene.
CorrectLabel(actions_dict, action, obs_label) ==
    actions_dict[action] = Str(obs_label)

\* The name of the action is a numeric label.
IsNumericLabel(actions_dict, action) ==
    \E j \in 1 .. Cardinality(DOMAIN actions_dict) :
        actions_dict[action] = Str(j)

\* A variant of the reward of the action that punishes a wrong label
\* whatever the parameter says.
BaseRewardAlwaysPunish(params, actions_dict, action, obs_label) ==
    IF CorrectLabel(actions_dict, action, obs_label) THEN 10
    ELSE IF IsNumericLabel(actions_dict, action) THEN -5
    ELSE 0

\* Reward.get_reward, the reward of the action itself, in tenths: 1 for
\* the right label, -0.5 for a wrong label when bad_label_punishment is
\* set, 0 otherwise.
BaseReward(params, actions_dict, action, obs_label) ==
    IF CorrectLabel(actions_dict, action, obs_label) THEN 10
    ELSE IF params.bad_label_punishment
            /\ IsNumericLabel(actions_dict, action) THEN -5
    ELSE 0

\* Rational numbers, as records of a numerator and a denominator above 0.
Frac(num, den) == [num |-> num, den |-> den]

FracLess(a, b) == a.num * b.den < b.num * a.den

FracEq(a, b) == a.num * b.den = b.num * a.den

FracAdd(a, b) == Frac(a.num * b.den + b.num * a.den, a.den * b.den)

\* The default bending and scale of the curiosity reward, in tenths.
Bending == 4
Scale == 1

\* A variant of _get_curiosity_reward that counts the visit being made.
GetCuriosityRewardCounted(n_visits, bending, scale) ==
    Frac(bending * scale, 10 * (bending + 10 * (n_visits + 1)))

\* _get_curiosity_reward, for bending and scale in tenths:
\* (bending / (bending + n_visits)) * scale.
GetCuriosityReward(n_visits, bending, scale) ==
    Frac(bending * scale, 10 * (bending + 10 * n_visits))

\* get_state_hash: the cells of the composite state, layer by layer and
\* row by row, joined to one string; the hash of the string is taken to
\* be the string.
StateHash(st) ==
    LET dim == CHOOSE d \in 1 .. MaxObsDim : DOMAIN st[1] = Cells(d)
        n == dim * dim
    IN  [ i \in 1 .. Len(st) * n |->
            st[((i - 1) \div n) + 1][
                << ((i - 1) % n) \div dim, ((i - 1) % n) % dim >>] ]

\* The visit count of a key: visit_history.get(key, 0).
Count(visit_history, key) ==
    IF key \in DOMAIN visit_history THEN visit_history[key] ELSE 0

\* The visit history with one more visit of the key.
Visit(visit_history, key) ==
    [ k \in DOMAIN visit_history \cup {key} |->
        IF k = key THEN Count(visit_history, key) + 1 ELSE visit_history[k] ]

\* Reward.get_reward(env, action, visit_history): the reward, the
\* correct_label flag and the visit history it leaves.  With curiosity it
\* reads the count of the state key, adds the curiosity reward of that
\* count and then counts the visit; a time penalty is subtracted.
GetReward(params, actions_dict, action, obs_label, key, visit_history) ==
    LET base == BaseReward(params, actions_dict, action, obs_label)
        n_visits == IF params.curiosity THEN Count(visit_history, key)
                    ELSE 0
        bonus == IF params.curiosity
                 THEN GetCuriosityReward(n_visits, Bending, Scale)
                 ELSE Frac(0, 1)
    IN  [ correct_label |-> CorrectLabel(actions_dict, action, obs_label),
          base |-> base,
          n_visits |-> n_visits,
          bonus |-> bonus,
          reward |-> FracAdd(Frac(base - params.time_penalty, 10), bonus),
          visit_history |-> IF params.curiosity
                            THEN Visit(visit_history, key)
                            ELSE visit_history ]

(***************************************************************************)
(* ReplayMemory and the optimization step                                  *)
(***************************************************************************)
MaxCapacity == 2

\* ReplayMemory(capacity)
NewReplayMemory(capacity) ==
    [capacity |-> capacity, memory |-> << >>, position |-> 0]

\* A variant of push that never moves the write position.
PushInPlace(rm, transition) ==
    LET mem == IF Len(rm.memory) < rm.capacity
               THEN Append(rm.memory, transition)
               ELSE rm.memory
    IN  [rm EXCEPT !.memory = [mem EXCEPT ![rm.position + 1] = transition]]

\* ReplayMemory.push: append while there is room, then overwrite the
\* oldest entry, the one at the write position.
Push(rm, transition) ==
    LET mem == IF Len(rm.memory) < rm.capacity
               THEN Append(rm.memory, transition)
               ELSE rm.memory
    IN  [rm EXCEPT !.memory = [mem EXCEPT ![rm.position + 1] = transition],
                   !.position = (rm.position + 1) % rm.capacity]

\* ReplayMemory.sample(batch_size): the draws of batch_size entries
\* without replacement, as sets of positions; none when the memory holds
\* fewer entries.
Sample(rm, batch_size) ==
    { b \in SUBSET (1 .. Len(rm.memory)) : Cardinality(b) = batch_size }

\* The draws an optimization step can make: one empty draw when it makes
\* none.
BatchDraws(rm, batch_size) ==
    IF Len(rm.memory) < batch_size THEN { {} } ELSE Sample(rm, batch_size)

\* optimize_model(replay_memory, batch_size, policy_net, ...) for a drawn
\* batch: None and nothing else when the memory holds fewer than
\* batch_size entries, else one update of the policy parameters, which
\* are modelled by the number of updates made.
OptimizeModel(rm, batch_size, batch, policy_net) ==
    IF Len(rm.memory) < batch_size
    THEN [ loss_val |-> "None", policy_net |-> policy_net, batch |-> {},
           replay_memory |-> rm ]
    ELSE [ loss_val |-> "loss", policy_net |-> policy_net + 1,
           batch |-> batch, replay_memory |-> rm ]

\* A variant of the logging of the loss that logs whatever
\* optimize_model returned.
LogLossAlways(loss_val, logged) == logged + 1

\* training_loop: the loss is logged when optimize_model returned one;
\* logged is the number of losses logged.
LogLoss(loss_val, logged) == IF loss_val # "None" THEN logged + 1 ELSE logged

\* A variant of the driver that gives every phase a new visit history.
FreshVisitHistory(state_visit_history) == << >>

\* The visit history the driver passes to training_loop in every phase:
\* the one dictionary it created before the first phase.
PassedVisitHistory(state_visit_history) == state_visit_history

(***************************************************************************)
(* SingleAgentEnv                                                          *)
(***************************************************************************)
VARIABLES
    cfg,                  \* the constructor arguments
    actions_dict,         \* code -> name
    obs,                  \* the scene
    obs_label,            \* the label of the scene
    squares,              \* the squares committed by the last generation
    committed,            \* the number of commits of the last generation
    ext_repr,             \* ExternalRepresentation
    finger_layer_scene,   \* FingerLayer 'scene'
    finger_layer_repr,    \* FingerLayer 'repr'
    state,                \* the composite state
    step_counter,
    first_label_output,
    ret,                  \* the last call: what it returned, and what it
                          \* found (calls: the step() calls of the episode;
                          \* counter_before, marked_before: step_counter and
                          \* the canvas before the call; cell_before: the
                          \* cell read by draw_point, -1 if it was not called)
                          \* reward, base, bonus, n_visits: what get_reward
                          \* returned and found
    sel,                  \* the last call of an action selection method
                          \* made by itself: its arguments, its draws, and
                          \* the action and the exception that came out
    reward,               \* the parameters of the Reward object
    visit_history,        \* state key -> number of visits
    replay_memory,        \* ReplayMemory
    hp,                   \* the settings of the training driver
    loop,                 \* the locals of the training driver and of
                          \* training_loop, and where they are
    generation            \* the locals of a running _generate_observation,
                          \* and where it is

\* The fields of the environment.
env_vars == << cfg, actions_dict, obs, obs_label, squares, committed,
               ext_repr, finger_layer_scene, finger_layer_repr, state,
               step_counter, first_label_output >>

\* The objects of the training driver.
driver_vars == << reward, replay_memory, hp, loop >>

vars == << env_vars, ret, sel, visit_history, driver_vars, generation >>

\* No action selection method has been called by itself.
NoSelection ==
    [ fn |-> "none", q_values |-> << >>, eps |-> 0, temperature |-> 0,
      sample |-> 0, rnd |-> 0, action |-> -1, raised |-> "none" ]

\* Some cell of the canvas is marked.
Marked(er) ==
    \E p \in DOMAIN er.external_representation :
        er.external_representation[p] # 0

\* A variant of _build_state that stacks the canvas first and the scene
\* last.
BuildStateCanvasFirst(o, fls, flr, er) ==
    << er.external_representation, fls.fingerlayer, flr.fingerlayer, o >>

\* _build_state
BuildState(o, fls, flr, er) ==
    << o, fls.fingerlayer, flr.fingerlayer, er.external_representation >>

\* A variant of the constructor that creates the scene finger before the
\* canvas.
ConstructFingerFirst(c, pos_scene, pos_repr) ==
    LET empty == [k \in 0 .. c.n_actions - 1 |-> ""]
        fls == FingerLayerInit("scene", c.obs_dim, empty, pos_scene)
        er == ExternalRepresentationInit(c.obs_dim, fls.actions_dict)
        flr == FingerLayerInit("repr", c.obs_dim, er.actions_dict, pos_repr)
    IN  [ actions_dict |-> FillLabels(flr.actions_dict, 0, 1),
          ext_repr |-> er.layer,
          finger_layer_scene |-> fls.layer,
          finger_layer_repr |-> flr.layer,
          step_counter |-> 0,
          first_label_output |-> TRUE ]

\* __init__ after the scene has been generated, for constructor arguments
\* c and drawn finger positions pos_scene, pos_repr (the composite state
\* is built by the caller, from these components and the scene).
Construct(c, pos_scene, pos_repr) ==
    LET empty == [k \in 0 .. c.n_actions - 1 |-> ""]
        er == ExternalRepresentationInit(c.obs_dim, empty)
        fls == FingerLayerInit("scene", c.obs_dim, er.actions_dict, pos_scene)
        flr == FingerLayerInit("repr", c.obs_dim, fls.actions_dict, pos_repr)
    IN  [ actions_dict |-> FillLabels(flr.actions_dict, 0, 1),
          ext_repr |-> er.layer,
          finger_layer_scene |-> fls.layer,
          finger_layer_repr |-> flr.layer,
          step_counter |-> 0,
          first_label_output |-> TRUE ]

\* A variant of reset() that leaves the first-label flag cleared.
ResetEnvFlagCleared(c, dict, pos_scene, pos_repr) ==
    LET er == ExternalRepresentationInit(c.obs_dim, dict)
        fls == FingerLayerInit("scene", c.obs_dim, er.actions_dict, pos_scene)
        flr == FingerLayerInit("repr", c.obs_dim, fls.actions_dict, pos_repr)
    IN  [ actions_dict |-> flr.actions_dict,
          ext_repr |-> er.layer,
          finger_layer_scene |-> fls.layer,
          finger_layer_repr |-> flr.layer,
          step_counter |-> 0,
          first_label_output |-> FALSE ]

\* reset() after the scene has been generated, on the action table dict.
ResetEnv(c, dict, pos_scene, pos_repr) ==
    LET er == ExternalRepresentationInit(c.obs_dim, dict)
        fls == FingerLayerInit("scene", c.obs_dim, er.actions_dict, pos_scene)
        flr == FingerLayerInit("repr", c.obs_dim, fls.actions_dict, pos_repr)
    IN  [ actions_dict |-> flr.actions_dict,
          ext_repr |-> er.layer,
          finger_layer_scene |-> fls.layer,
          finger_layer_repr |-> flr.layer,
          step_counter |-> 0,
          first_label_output |-> TRUE ]

\* A variant of the dispatch in which a code that no component owns marks
\* the canvas.
DispatchElseMarks(action, dict, fls, flr, er) ==
    IF action \in fls.action_codes
    THEN [ finger_layer_scene |-> FingerLayerStep(fls, action, dict),
           finger_layer_repr |-> flr, ext_repr |-> er,
           called |-> "finger_layer_scene" ]
    ELSE IF action \in flr.action_codes
    THEN [ finger_layer_scene |-> fls,
           finger_layer_repr |-> FingerLayerStep(flr, action, dict),
           ext_repr |-> er, called |-> "finger_layer_repr" ]
    ELSE [ finger_layer_scene |-> fls, finger_layer_repr |-> flr,
           ext_repr |-> DrawPoint(er, << flr.pos_x, flr.pos_y >>),
           called |-> "ext_repr" ]

\* The dispatch of step(): the component that owns the code acts.
Dispatch(action, dict, fls, flr, er) ==
    IF action \in fls.action_codes
    THEN [ finger_layer_scene |-> FingerLayerStep(fls, action, dict),
           finger_layer_repr |-> flr, ext_repr |-> er,
           called |-> "finger_layer_scene" ]
    ELSE IF action \in flr.action_codes
    THEN [ finger_layer_scene |-> fls,
           finger_layer_repr |-> FingerLayerStep(flr, action, dict),
           ext_repr |-> er, called |-> "finger_layer_repr" ]
    ELSE IF action \in er.action_codes
    THEN [ finger_layer_scene |-> fls, finger_layer_repr |-> flr,
           ext_repr |-> DrawPoint(er, << flr.pos_x, flr.pos_y >>),
           called |-> "ext_repr" ]
    ELSE [ finger_layer_scene |-> fls, finger_layer_repr |-> flr,
           ext_repr |-> er, called |-> "none" ]

\* A variant of the episode ending test that ignores the step counter.
EpisodeDoneLabelOnly(correct_label, counter, max_episode_length) ==
    correct_label

\* A variant of the episode ending test with a strict comparison.
EpisodeDoneStrict(correct_label, counter, max_episode_length) ==
    correct_label \/ (counter > max_episode_length)

\* The episode ending test of step().
EpisodeDone(correct_label, counter, max_episode_length) ==
    correct_label \/ (counter >= max_episode_length)

\* What a call that is not a step() leaves in ret for the reward.
NoReward ==
    [ reward |-> Frac(0, 1), base |-> 0, bonus |-> Frac(0, 1),
      n_visits |-> 0 ]

\* The state after construction with arguments of the set configs.
EnvInit(configs) ==
    /\ cfg \in configs
    /\ \E pos_scene \in FingerInitPositions(cfg.obs_dim,
                                            cfg.random_finger_position) :
       \E pos_repr \in FingerInitPositions(cfg.obs_dim,
                                           cfg.random_finger_position) :
       \E env \in { Construct(cfg, pos_scene, pos_repr) } :
       \E gen \in GenTable[cfg] :
              /\ obs = gen.obs
              /\ obs_label = gen.obs_label
              /\ squares = gen.squares
              /\ committed = gen.committed
              /\ actions_dict = env.actions_dict
              /\ ext_repr = env.ext_repr
              /\ finger_layer_scene = env.finger_layer_scene
              /\ finger_layer_repr = env.finger_layer_repr
              /\ state = BuildState(gen.obs, env.finger_layer_scene,
                                    env.finger_layer_repr, env.ext_repr)
              /\ step_counter = env.step_counter
              /\ first_label_output = env.first_label_output
              /\ ret = [ op |-> "init", action |-> -1, called |-> "none",
                         done |-> FALSE, correct_label |-> FALSE,
                         calls |-> 0, counter_before |-> 0,
                         marked_before |-> FALSE, cell_before |-> -1,
                         n_objects |-> gen.n_objects,
                         warnings |-> gen.warnings ]
                       @@ NoReward

\* The parameters of the Reward object of the environment's own driver.
PlainReward ==
    [ bad_label_punishment |-> FALSE, curiosity |-> FALSE,
      time_penalty |-> 0 ]

\* No training driver runs.
NoDriver ==
    [ reward |-> PlainReward,
      replay_memory |-> [capacity |-> 0, memory |-> << >>, position |-> 0],
      hp |-> << >>,
      loop |-> [pc |-> "none"],
      generation |-> [pc |-> "none"] ]

\* The state after construction, with an empty visit history.
Init ==
    /\ EnvInit(Configs)
    /\ sel = NoSelection
    /\ visit_history = << >>
    /\ reward = NoDriver.reward
    /\ replay_memory = NoDriver.replay_memory
    /\ hp = NoDriver.hp
    /\ loop = NoDriver.loop
    /\ generation = NoDriver.generation

\* reset(); it returns a copy of state.
EnvReset ==
    \E pos_scene \in FingerInitPositions(cfg.obs_dim,
                                         cfg.random_finger_position) :
    \E pos_repr \in FingerInitPositions(cfg.obs_dim,
                                        cfg.random_finger_position) :
    \E env \in { ResetEnv(cfg, actions_dict, pos_scene, pos_repr) } :
    \E gen \in GenTable[cfg] :
           /\ obs' = gen.obs
           /\ obs_label' = gen.obs_label
           /\ squares' = gen.squares
           /\ committed' = gen.committed
           /\ actions_dict' = env.actions_dict
           /\ ext_repr' = env.ext_repr
           /\ finger_layer_scene' = env.finger_layer_scene
           /\ finger_layer_repr' = env.finger_layer_repr
           /\ state' = BuildState(gen.obs, env.finger_layer_scene,
                                  env.finger_layer_repr, env.ext_repr)
           /\ step_counter' = env.step_counter
           /\ first_label_output' = env.first_label_output
           /\ ret' = [ op |-> "reset", action |-> -1, called |-> "none",
                       done |-> FALSE, correct_label |-> FALSE,
                       calls |-> 0, counter_before |-> step_counter,
                       marked_before |-> Marked(ext_repr),
                       cell_before |-> -1,
                       n_objects |-> gen.n_objects,
                       warnings |-> gen.warnings ]
                     @@ NoReward
           /\ UNCHANGED cfg

\* step(q_values, n_episode, visit_history) for selection inputs of the
\* set inputs; it returns action, a copy of state, reward, done and
\* correct_label.  get_reward is called before the composite state is
\* rebuilt, so the state key it reads is the key of the state the
\* previous call built.
EnvStep(inputs) ==
    /\ \E in \in inputs :
       \E action \in { EpsilonGreedyActionSelection(in[1], DefaultEps,
                                                    in[2], in[3]) } :
       \E d \in { Dispatch(action, actions_dict, finger_layer_scene,
                           finger_layer_repr, ext_repr) } :
       \E rw \in { GetReward(reward, actions_dict, action, obs_label,
                             StateHash(state), visit_history) } :
       \E correct_label \in { rw.correct_label } :
       \E new_state \in { BuildState(obs, d.finger_layer_scene,
                                     d.finger_layer_repr, d.ext_repr) } :
          /\ step_counter' = step_counter + 1
          /\ finger_layer_scene' = d.finger_layer_scene
          /\ finger_layer_repr' = d.finger_layer_repr
          /\ ext_repr' = d.ext_repr
          /\ state' = new_state
          /\ ret' = [ op |-> "step", action |-> action,
                      called |-> d.called,
                      done |-> EpisodeDone(correct_label, step_counter + 1,
                                           cfg.max_episode_length),
                      correct_label |-> correct_label,
                      calls |-> ret.calls + 1,
                      counter_before |-> step_counter,
                      marked_before |-> Marked(ext_repr),
                      cell_before |->
                          IF d.called = "ext_repr"
                          THEN ext_repr.external_representation[
                                   << finger_layer_repr.pos_x,
                                      finger_layer_repr.pos_y >>]
                          ELSE -1,
                      reward |-> rw.reward, base |-> rw.base,
                      bonus |-> rw.bonus, n_visits |-> rw.n_visits ]
          /\ visit_history' = rw.visit_history
          /\ UNCHANGED << cfg, actions_dict, obs, obs_label, squares,
                          committed, first_label_output >>

\* reset(), called by itself.
Reset ==
    /\ EnvReset
    /\ UNCHANGED << sel, visit_history, driver_vars, generation >>

\* step(), called by itself while the episode is not done.
Step ==
    /\ ~ ret.done
    /\ EnvStep(SelectionInputs(cfg.n_actions, DefaultEps))
    /\ UNCHANGED << sel, driver_vars, generation >>

Next == Reset \/ Step

Spec == Init /\ [][Next]_vars

(***************************************************************************)
(* One environment driven as training_loop drives it: reset(), then step() *)
(* while the last step has not returned done, then the next episode.  The  *)
(* while loop calls step() again as long as done is False, which is the    *)
(* weak fairness of EpisodeStep.                                           *)
(***************************************************************************)
\* The explored constructor arguments: the plain scene with fingers that
\* start at (0, 0), every number of labels and every episode length.
EpisodeConfigs ==
    { c \in Configs : PlainScene(c) /\ ~ c.random_finger_position }

EpisodeInit ==
    /\ EnvInit(EpisodeConfigs)
    /\ sel = NoSelection
    /\ visit_history = << >>
    /\ reward = NoDriver.reward
    /\ replay_memory = NoDriver.replay_memory
    /\ hp = NoDriver.hp
    /\ loop = NoDriver.loop
    /\ generation = NoDriver.generation

\* state = env.reset() at the start of an episode.
EpisodeReset ==
    /\ ret.op = "init" \/ ret.done
    /\ Reset

\* One pass of the loop while not done.
EpisodeStep ==
    /\ ret.op # "init"
    /\ Step

EpisodeNext == EpisodeReset \/ EpisodeStep

EpisodeSpec ==
    EpisodeInit /\ [][EpisodeNext]_vars /\ WF_vars(EpisodeStep)

(***************************************************************************)
(* _generate_observation step by step, as __init__ calls it: the for loop  *)
(* over the objects, the while loop that shrinks the size, the sampling    *)
(* loop of _generate_square and the sampling loop around it.  A draw that  *)
(* is rejected leaves the locals as they are.  The program goes on from    *)
(* every loop head (weak fairness), and the sampler, which draws every     *)
(* upper left point with the same probability, draws again and again a     *)
(* point whose square can be committed when there is one (strong fairness  *)
(* of these draws).                                                        *)
(***************************************************************************)
\* The explored constructor arguments: every scene setting.
GenConfigs == { c \in Configs : PlainEnv(c) }

\* What a field holds before __init__ has assigned it.
NotConstructed == << >>

\* __init__ has created the empty action table and calls
\* _generate_observation, which has cleared the scene and drawn n_objects.
GenInit ==
    /\ cfg \in GenConfigs
    /\ actions_dict = [k \in 0 .. cfg.n_actions - 1 |-> ""]
    /\ obs = Zeros(cfg.obs_dim)
    /\ obs_label = 0
    /\ squares = {}
    /\ committed = 0
    /\ ext_repr = NotConstructed
    /\ finger_layer_scene = NotConstructed
    /\ finger_layer_repr = NotConstructed
    /\ state = NotConstructed
    /\ step_counter = 0
    /\ first_label_output = TRUE
    /\ ret = [op |-> "none"]
    /\ sel = NoSelection
    /\ visit_history = << >>
    /\ reward = NoDriver.reward
    /\ replay_memory = NoDriver.replay_memory
    /\ hp = NoDriver.hp
    /\ loop = NoDriver.loop
    /\ generation \in
           { g @@ [ object_coordinates |-> {}, initial_size |-> 0,
                    decrements |-> 0 ] : g \in GenStart(cfg) }

\* The head of the for loop: the loop ends, or the size of the next
\* object is chosen.
GenForLoop ==
    /\ generation.pc = "for"
    /\ generation' \in
           { IF g.pc = "while"
             THEN [g EXCEPT !.initial_size = g.object_size,
                            !.decrements = 0]
             ELSE g : g \in GenStep(cfg, generation) }
    /\ UNCHANGED << env_vars, ret, sel, visit_history, driver_vars >>

\* The while loop finds that the size does not fit: the size shrinks, and
\* at 0 the generation ends early.
GenShrink ==
    /\ generation.pc = "while"
    /\ ~ CheckSquareCanFit(cfg.obs_dim, generation.object_size,
                           generation.picture_objects_coordinates)
    /\ generation' \in
           { [g EXCEPT !.decrements = generation.decrements + 1] :
                 g \in GenStep(cfg, generation) }
    /\ UNCHANGED << env_vars, ret, sel, visit_history, driver_vars >>

\* The while loop finds that the size fits and enters the sampling loops.
GenEnterSampling ==
    /\ generation.pc = "while"
    /\ CheckSquareCanFit(cfg.obs_dim, generation.object_size,
                         generation.picture_objects_coordinates)
    /\ generation' = [generation EXCEPT !.pc = "point"]
    /\ UNCHANGED << env_vars, ret, sel, visit_history, driver_vars >>

\* The upper left points np.random.randint can draw for a square.
UpperLeftPoints(obs_dim, size) ==
    (0 .. obs_dim - size) \X (0 .. obs_dim - size)

\* _generate_square draws the upper left point u: a point that fails the
\* point check is drawn again, a point that passes gives the square.
GenDrawPoint(u) ==
    /\ generation.pc = "point"
    /\ u \in UpperLeftPoints(cfg.obs_dim, generation.object_size)
    /\ generation' =
           IF CheckSquaresIntersectionAdjacency(
                  generation.picture_objects_coordinates, {u})
           THEN generation
           ELSE [generation EXCEPT
                    !.pc = "square",
                    !.object_coordinates =
                        SquareAt(u, generation.object_size)]
    /\ UNCHANGED << env_vars, ret, sel, visit_history, driver_vars >>

\* The sampling loop of _generate_observation checks the square: it is
\* committed, or _generate_square is called again.
GenCheckPicture ==
    /\ generation.pc = "square"
    /\ generation' =
           IF ValidPicture(generation.picture_objects_coordinates,
                           generation.object_coordinates)
           THEN [generation EXCEPT
                    !.pc = "for", !.n = @ + 1,
                    !.picture_objects_coordinates =
                        @ \cup generation.object_coordinates,
                    !.squares = @ \cup {generation.object_coordinates},
                    !.committed = @ + 1,
                    !.object_coordinates = {}]
           ELSE [generation EXCEPT !.pc = "point",
                                   !.object_coordinates = {}]
    /\ UNCHANGED << env_vars, ret, sel, visit_history, driver_vars >>

\* The loops are left: obs_label and the cells of the scene are set.
GenReturn ==
    /\ generation.pc = "end"
    /\ generation' = [generation EXCEPT !.pc = "returned"]
    /\ obs_label' = generation.objects_drawn
    /\ obs' = [p \in Cells(cfg.obs_dim) |->
                  IF p \in generation.picture_objects_coordinates
                  THEN 1 ELSE 0]
    /\ squares' = generation.squares
    /\ committed' = generation.committed
    /\ UNCHANGED << cfg, actions_dict, ext_repr, finger_layer_scene,
                    finger_layer_repr, state, step_counter,
                    first_label_output, ret, sel, visit_history,
                    driver_vars >>

\* The steps of the program that are no draws.
GenProgram ==
    GenForLoop \/ GenShrink \/ GenEnterSampling \/ GenCheckPicture
        \/ GenReturn

\* A draw of an upper left point.
GenDraw == \E u \in Cells(cfg.obs_dim) : GenDrawPoint(u)

\* A draw of an upper left point whose square can be committed.
GenDrawCommittable ==
    \E u \in Cells(cfg.obs_dim) :
        /\ GenDrawPoint(u)
        /\ ValidPicture(generation.picture_objects_coordinates,
                        SquareAt(u, generation.object_size))

GenNext == GenProgram \/ GenDraw

GenSpec ==
    /\ GenInit
    /\ [][GenNext]_vars
    /\ WF_vars(GenProgram)
    /\ SF_vars(GenDrawCommittable)

(***************************************************************************)
(* Construction on the 4 x 4 grid and with fewer codes than named actions: *)
(* the constructor generates the first scene and builds the action table,  *)
(* and every reset() generates another scene.                              *)
(***************************************************************************)
ConstructInit ==
    /\ EnvInit(ScenarioConfigs \cup TruncatedConfigs)
    /\ sel = NoSelection
    /\ visit_history = << >>
    /\ reward = NoDriver.reward
    /\ replay_memory = NoDriver.replay_memory
    /\ hp = NoDriver.hp
    /\ loop = NoDriver.loop
    /\ generation = NoDriver.generation

ConstructNext == Reset

ConstructSpec == ConstructInit /\ [][ConstructNext]_vars

(***************************************************************************)
(* The action selection methods, called by themselves                      *)
(***************************************************************************)
\* The q vectors of n codes given to a selection method: one peak at each
\* code, and all codes tied.
QVectors(n) == { PeakAt(n, a) : a \in 0 .. n - 1 } \cup { [i \in 1 .. n |-> 0] }

\* The values of eps, in tenths: 0, the default and 1.
EpsValues == {0, DefaultEps, 10}

\* The values of temperature.
Temperatures == {-1, 0, 1}

\* An environment of one cell with all labels has been constructed.
SelInit ==
    /\ Init
    /\ cfg.obs_dim = 1
    /\ PlainScene(cfg)
    /\ PlainEnv(cfg)

\* _epsilon_greedy_action_selection(q_values, eps)
SelectEpsilonGreedy ==
    /\ \E q_values \in QVectors(cfg.n_actions) :
       \E eps \in EpsValues :
       \E sample \in Samples :
       \E rnd \in 0 .. cfg.n_actions - 1 :
          sel' = [ fn |-> "epsilon_greedy", q_values |-> q_values,
                   eps |-> eps, temperature |-> 0, sample |-> sample,
                   rnd |-> rnd,
                   action |-> EpsilonGreedyActionSelection(q_values, eps,
                                                           sample, rnd),
                   raised |-> "none" ]
    /\ UNCHANGED << env_vars, ret, visit_history, driver_vars, generation >>

\* _softmax_action_selection(q_values, temperature); the draw is made for
\* a temperature above 0 only.
SelectSoftmax ==
    /\ \E q_values \in QVectors(cfg.n_actions) :
       \E temperature \in Temperatures :
       \E choice \in (IF temperature > 0 THEN 0 .. cfg.n_actions - 1
                                          ELSE {0}) :
       \E out \in { SoftmaxActionSelection(q_values, temperature, choice) } :
          sel' = [ fn |-> "softmax", q_values |-> q_values, eps |-> 0,
                   temperature |-> temperature, sample |-> 0,
                   rnd |-> choice, action |-> out.action,
                   raised |-> out.raised ]
    /\ UNCHANGED << env_vars, ret, visit_history, driver_vars, generation >>

SelNext == SelectEpsilonGreedy \/ SelectSoftmax

SelSpec == SelInit /\ [][SelNext]_vars

(***************************************************************************)
(* The training driver and training_loop                                   *)
(***************************************************************************)
MaxTrainSteps == 3
MaxEpisodes == 2

\* next_state of a terminal step.
None == << >>

\* The settings of the driver: a curriculum of 1 to MaxLabels objects;
\* episodes of more than one step are explored with one episode per
\* phase, and a replay memory below the largest capacity with batches of
\* one transition.
TrainSettings ==
    { s \in [ max_CL_objects : {MaxLabels},
              n_episodes_per_phase : 1 .. MaxEpisodes,
              max_episode_length : 1 .. MaxEpisodeLength,
              replay_memory_capacity : 1 .. MaxCapacity,
              batch_size : 1 .. MaxCapacity,
              target_update : {2} ] :
        /\ s.max_episode_length = 1 \/ s.n_episodes_per_phase = 1
        /\ s.replay_memory_capacity = MaxCapacity \/ s.batch_size = 1
        /\ s.replay_memory_capacity \in {1, MaxCapacity} }

\* The parameters of the Reward object: those of the driver, and
\* curiosity without punishment and time penalty.
RewardSettings ==
    { [bad_label_punishment |-> TRUE, curiosity |-> FALSE, time_penalty |-> 1],
      [bad_label_punishment |-> FALSE, curiosity |-> TRUE, time_penalty |-> 0] }

\* The q values the policy predictor returns and the draws of the
\* selection, for the default eps: a peak at the mark action or at a
\* label, with a draw above eps.
TrainSelectionInputs(n) ==
    { <<PeakAt(n, a), 9, 0>> : a \in {0} \cup (NamedActions .. n - 1) }

\* The driver has created the settings, the predictors, the replay
\* memory, the Reward object, CL_settings and the visit history, and has
\* constructed the environment of the first phase.  Curiosity is explored
\* with a replay memory of one transition and one episode per phase.
TrainInit ==
    /\ hp \in TrainSettings
    /\ reward \in RewardSettings
    /\ reward.curiosity =>
           hp.replay_memory_capacity = 1 /\ hp.n_episodes_per_phase = 1
    /\ EnvInit({ TrainEnvConfig(1, hp.max_episode_length) })
    /\ sel = NoSelection
    /\ visit_history = << >>
    /\ replay_memory = NewReplayMemory(hp.replay_memory_capacity)
    /\ loop = [ pc |-> "call", n_objects |-> 1, episode |-> 0,
                n_iter |-> 0, n_iter_cl_phase |-> 0, CL_n_iter |-> 0,
                state |-> None, policy_net |-> 0, target_net |-> 0,
                logged |-> 0, pushes |-> 0, opt_calls |-> 0,
                n_episode |-> 0,
                opt |-> [occupancy |-> 0, loss_val |-> "None",
                         batch |-> {}, updated |-> FALSE,
                         logged |-> FALSE, memory_kept |-> TRUE],
                CL_settings_is_None |-> FALSE, bound |-> {},
                raised |-> "none" ]
    /\ generation = NoDriver.generation

\* A variant of training_loop that starts every call with n_iter = 0.
ReadNIterZero(CL_n_iter) == 0

\* training_loop with CL_settings: n_iter = CL_settings["n_iter"].
ReadNIter(CL_n_iter) == CL_n_iter

\* The locals the head of training_loop binds: n_iter without
\* CL_settings, n_iter_cl_phase and n_iter with CL_settings.
BoundLocals(CL_settings_is_None) ==
    IF CL_settings_is_None THEN {"n_iter"} ELSE {"n_iter_cl_phase", "n_iter"}

\* training_loop is called and reads CL_settings; bound holds the names
\* of the counters that have a value.
EnterTrainingLoop ==
    /\ loop.pc = "call"
    /\ loop' = [loop EXCEPT !.pc = "episode", !.episode = 0,
                            !.n_iter = IF loop.CL_settings_is_None THEN 0
                                       ELSE ReadNIter(loop.CL_n_iter),
                            !.n_iter_cl_phase = 0,
                            !.bound = BoundLocals(loop.CL_settings_is_None)]
    /\ visit_history' = PassedVisitHistory(visit_history)
    /\ UNCHANGED << env_vars, ret, sel, reward, replay_memory, hp, generation >>

\* An episode begins: state = env.reset().
BeginEpisode ==
    /\ loop.pc = "episode"
    /\ loop.episode < hp.n_episodes_per_phase
    /\ EnvReset
    /\ loop' = [loop EXCEPT !.pc = "step", !.state = state']
    /\ UNCHANGED << sel, visit_history, reward, replay_memory, hp, generation >>

\* A variant of the step loop that keeps the state env.step returned as
\* next_state of a terminal step.
NextStateKept(done, next_state) == next_state

\* training_loop: if done: next_state = None.
NextState(done, next_state) == IF done THEN None ELSE next_state

\* The index training_loop passes to env.step as n_episode, after the
\* increments of the pass.
NEpisodeArgument(episode, n_iter_cl_phase) == n_iter_cl_phase

\* A variant of the end of the pass that optimizes before it pushes.
OptimizeThenPush(rm, transition, batch_size, policy_net) ==
    { [ loss_val |-> opt.loss_val, policy_net |-> opt.policy_net,
        batch |-> opt.batch,
        replay_memory |-> Push(opt.replay_memory, transition),
        occupancy |-> Len(rm.memory),
        memory_kept |-> opt.replay_memory = rm ] :
      opt \in { OptimizeModel(rm, batch_size, batch, policy_net) :
                    batch \in BatchDraws(rm, batch_size) } }

\* The end of a pass of the step loop: replay_memory.push(...), then
\* optimize_model(replay_memory, ...) on the memory that holds the new
\* transition; occupancy is the number of entries optimize_model finds.
PushThenOptimize(rm, transition, batch_size, policy_net) ==
    LET pushed == Push(rm, transition)
    IN  { [ loss_val |-> opt.loss_val, policy_net |-> opt.policy_net,
            batch |-> opt.batch,
            replay_memory |-> opt.replay_memory,
            occupancy |-> Len(pushed.memory),
            memory_kept |-> opt.replay_memory = pushed ] :
          opt \in { OptimizeModel(pushed, batch_size, batch, policy_net) :
                        batch \in BatchDraws(pushed, batch_size) } }

\* One pass of the step loop: the counters, the q values, env.step, the
\* push of the transition, the optimization step and the logging of its
\* loss.  n_iter_cl_phase += 1 on an unbound n_iter_cl_phase raises
\* UnboundLocalError after n_iter += 1, and the call ends there.
TrainStep ==
    /\ loop.pc = "step"
    /\ loop.n_iter < MaxTrainSteps
    /\ IF "n_iter_cl_phase" \notin loop.bound
       THEN
          /\ loop' = [loop EXCEPT !.pc = "raised",
                                  !.raised = "UnboundLocalError",
                                  !.n_iter = loop.n_iter + 1]
          /\ UNCHANGED << env_vars, ret, visit_history, replay_memory >>
       ELSE
       \E in \in TrainSelectionInputs(cfg.n_actions) :
          /\ EnvStep({in})
          /\ \E opt \in PushThenOptimize(
                             replay_memory,
                             [ state |-> loop.state, q_values |-> in[1],
                               next_state |-> NextState(ret'.done, state'),
                               reward |-> ret'.reward,
                               pushed |-> loop.pushes + 1 ],
                             hp.batch_size, loop.policy_net) :
                /\ replay_memory' = opt.replay_memory
                /\ loop' = [loop EXCEPT
                       !.pc = IF ret'.done THEN "episode_end" ELSE "step",
                       !.n_iter = loop.n_iter + 1,
                       !.n_iter_cl_phase = loop.n_iter_cl_phase + 1,
                       !.n_episode =
                           NEpisodeArgument(loop.episode,
                                            loop.n_iter_cl_phase + 1),
                       !.state = NextState(ret'.done, state'),
                       !.policy_net = opt.policy_net,
                       !.logged = LogLoss(opt.loss_val, loop.logged),
                       !.pushes = loop.pushes + 1,
                       !.opt_calls = loop.opt_calls + 1,
                       !.opt = [ occupancy |-> opt.occupancy,
                                 loss_val |-> opt.loss_val,
                                 batch |-> opt.batch,
                                 updated |-> opt.policy_net # loop.policy_net,
                                 logged |-> LogLoss(opt.loss_val, loop.logged)
                                                # loop.logged,
                                 memory_kept |-> opt.memory_kept ] ]
    /\ UNCHANGED << sel, reward, hp, generation >>

\* A variant of the test for the target update that counts the episodes
\* from 1.
TargetSyncOneBased(episode, target_update) ==
    (episode + 1) % target_update = 0

\* training_loop: episode % target_update == 0.
TargetSync(episode, target_update) == episode % target_update = 0

\* The episode has ended: the target predictor gets the parameters of
\* the policy predictor when the episode index is a multiple of
\* target_update.
EndEpisode ==
    /\ loop.pc = "episode_end"
    /\ loop' = [loop EXCEPT
           !.pc = "episode",
           !.target_net = IF TargetSync(loop.episode, hp.target_update)
                          THEN loop.policy_net ELSE loop.target_net,
           !.episode = loop.episode + 1]
    /\ UNCHANGED << env_vars, ret, sel, visit_history, reward,
                    replay_memory, hp, generation >>

\* All episodes are done: training_loop writes CL_settings and returns;
\* the item assignment CL_settings["n_iter"] = n_iter on None raises
\* TypeError.
LeaveTrainingLoop ==
    /\ loop.pc = "episode"
    /\ loop.episode = hp.n_episodes_per_phase
    /\ loop' = IF loop.CL_settings_is_None
               THEN [loop EXCEPT !.pc = "raised", !.raised = "TypeError"]
               ELSE [loop EXCEPT !.pc = "returned", !.CL_n_iter = loop.n_iter]
    /\ UNCHANGED << env_vars, ret, sel, visit_history, reward,
                    replay_memory, hp, generation >>

\* The driver goes to the next phase and re-creates the environment.
NextPhase ==
    /\ loop.pc = "returned"
    /\ loop.n_objects < hp.max_CL_objects
    /\ \E c \in { TrainEnvConfig(loop.n_objects + 1, hp.max_episode_length) } :
       \E env \in { Construct(c, <<0, 0>>, <<0, 0>>) } :
       \E gen \in GenTable[c] :
          /\ cfg' = c
          /\ obs' = gen.obs
          /\ obs_label' = gen.obs_label
          /\ squares' = gen.squares
          /\ committed' = gen.committed
          /\ actions_dict' = env.actions_dict
          /\ ext_repr' = env.ext_repr
          /\ finger_layer_scene' = env.finger_layer_scene
          /\ finger_layer_repr' = env.finger_layer_repr
          /\ state' = BuildState(gen.obs, env.finger_layer_scene,
                                 env.finger_layer_repr, env.ext_repr)
          /\ step_counter' = env.step_counter
          /\ first_label_output' = env.first_label_output
          /\ ret' = [ op |-> "init", action |-> -1, called |-> "none",
                      done |-> FALSE, correct_label |-> FALSE,
                      calls |-> 0, counter_before |-> 0,
                      marked_before |-> FALSE, cell_before |-> -1,
                      n_objects |-> gen.n_objects,
                      warnings |-> gen.warnings ]
                    @@ NoReward
    /\ loop' = [loop EXCEPT !.pc = "call", !.n_objects = loop.n_objects + 1]
    /\ UNCHANGED << sel, visit_history, reward, replay_memory, hp, generation >>

TrainNext ==
    \/ EnterTrainingLoop
    \/ BeginEpisode
    \/ TrainStep
    \/ EndEpisode
    \/ LeaveTrainingLoop
    \/ NextPhase

TrainSpec == TrainInit /\ [][TrainNext]_vars

(***************************************************************************)
(* One call of training_loop, with and without CL_settings                 *)
(***************************************************************************)
\* The arguments of the call: n_episodes from 0 on, batches of one
\* transition, and episodes of more than one step with one episode.
CallSettings ==
    { s \in [ max_CL_objects : {MaxLabels},
              n_episodes_per_phase : 0 .. MaxEpisodes,
              max_episode_length : 1 .. MaxEpisodeLength,
              replay_memory_capacity : {1, MaxCapacity},
              batch_size : {1},
              target_update : {2} ] :
        s.max_episode_length = 1 \/ s.n_episodes_per_phase <= 1 }

\* The caller has constructed an environment of 1 to MaxLabels objects,
\* the replay memory and the Reward object, and calls training_loop with
\* CL_settings = None, the default, or with a dictionary.
CallInit ==
    /\ hp \in CallSettings
    /\ reward \in RewardSettings
    /\ reward.curiosity =>
           hp.replay_memory_capacity = 1 /\ hp.n_episodes_per_phase <= 1
    /\ \E n \in 1 .. MaxLabels :
          EnvInit({ TrainEnvConfig(n, hp.max_episode_length) })
    /\ sel = NoSelection
    /\ visit_history = << >>
    /\ replay_memory = NewReplayMemory(hp.replay_memory_capacity)
    /\ \E none \in BOOLEAN :
          loop = [ pc |-> "call", n_objects |-> cfg.max_episode_objects,
                   episode |-> 0,
                   n_iter |-> 0, n_iter_cl_phase |-> 0, CL_n_iter |-> 0,
                   state |-> None, policy_net |-> 0, target_net |-> 0,
                   logged |-> 0, pushes |-> 0, opt_calls |-> 0,
                   n_episode |-> 0,
                   opt |-> [occupancy |-> 0, loss_val |-> "None",
                            batch |-> {}, updated |-> FALSE,
                            logged |-> FALSE, memory_kept |-> TRUE],
                   CL_settings_is_None |-> none, bound |-> {},
                   raised |-> "none" ]
    /\ generation = NoDriver.generation

CallNext ==
    \/ EnterTrainingLoop
    \/ BeginEpisode
    \/ TrainStep
    \/ EndEpisode
    \/ LeaveTrainingLoop

CallSpec == CallInit /\ [][CallNext]_vars

(***************************************************************************)
(* Properties                                                              *)
(***************************************************************************)
\* The cells of a grid that hold 1.
Occupied(grid) == { p \in DOMAIN grid : grid[p] = 1 }

\* The codes whose name is a numeric label.
NumericLabelCodes(dict) ==
    { k \in DOMAIN dict :
        \E j \in 1 .. Cardinality(DOMAIN dict) : dict[k] = Str(j) }

\* The number of the four owners (scene finger, repr finger, canvas,
\* numeric labels) that own code k.
Owners(k) ==
    (IF k \in finger_layer_scene.action_codes THEN 1 ELSE 0)
    + (IF k \in finger_layer_repr.action_codes THEN 1 ELSE 0)
    + (IF k \in ext_repr.action_codes THEN 1 ELSE 0)
    + (IF k \in NumericLabelCodes(actions_dict) THEN 1 ELSE 0)

\* The four owners partition [0, n_actions).
CodesPartitioned ==
    /\ DOMAIN actions_dict = 0 .. cfg.n_actions - 1
    /\ \A k \in 0 .. cfg.n_actions - 1 : Owners(k) = 1

\* The position of a finger layer.
Pos(layer) == << layer.pos_x, layer.pos_y >>

\* The canvas.
Canvas == ext_repr.external_representation

\* C1: after construction and after every reset(), no two occupied cells
\* of the scene that belong to different placed squares are the same cell
\* or share an edge, and the occupied cells are those of the placed squares.
C1_SquaresApart ==
    ret.op \in {"init", "reset"} =>
        /\ Occupied(obs) = UNION squares
        /\ \A s1 \in squares : \A s2 \in squares :
               s1 # s2 =>
                   \A p \in s1 : \A q \in s2 :
                       p # q /\ q \notin Neighbours(p)

\* C1 witness: a reset() has generated a scene of at least two squares, one
\* of them larger than a cell.
C1_Witness ==
    /\ ret.op = "reset"
    /\ Cardinality(squares) >= 2
    /\ \E s \in squares : Cardinality(s) > 1

\* C2: after every scene generation obs_label is the number of squares
\* committed to the scene, also when the generation ended early.
C2_LabelCountsCommitted ==
    /\ obs_label = committed
    /\ committed = Cardinality(squares)
    /\ Occupied(obs) = UNION squares

\* C2 witness: a generation with a fixed number of requested objects has
\* ended early, after it had placed a square.
C2_Witness ==
    /\ ret.op = "reset"
    /\ ~ cfg.generate_random_nobj
    /\ obs_label >= 1
    /\ obs_label < cfg.max_episode_objects

\* C3: after construction with n_actions >= 9 every code has one non-empty
\* name, no name is used by two codes, and every code is owned by exactly
\* one of the scene finger, the repr finger, the canvas and the labels.
C3_PartitionAfterConstruction ==
    (ret.op = "init" /\ cfg.n_actions >= NamedActions) =>
        /\ \A k \in 0 .. cfg.n_actions - 1 : actions_dict[k] # ""
        /\ \A k1 \in 0 .. cfg.n_actions - 1 :
           \A k2 \in 0 .. cfg.n_actions - 1 :
               k1 # k2 => actions_dict[k1] # actions_dict[k2]
        /\ CodesPartitioned

\* C3 witness: an environment has been constructed with numeric labels.
C3_Witness ==
    /\ ret.op = "init"
    /\ cfg.n_actions > NamedActions
    /\ NumericLabelCodes(actions_dict) # {}

\* C4: in every state of an environment, whatever the number of reset()
\* calls, the action_codes of the scene finger, the repr finger and the
\* canvas are the sets the constructor assigned, and with the numeric-label
\* codes they partition [0, n_actions).
C4_OwnershipFixed ==
    /\ ext_repr.action_codes
           = Construct(cfg, <<0, 0>>, <<0, 0>>).ext_repr.action_codes
    /\ finger_layer_scene.action_codes
           = Construct(cfg, <<0, 0>>, <<0, 0>>).finger_layer_scene.action_codes
    /\ finger_layer_repr.action_codes
           = Construct(cfg, <<0, 0>>, <<0, 0>>).finger_layer_repr.action_codes
    /\ CodesPartitioned

\* C5: in every step() call the selected code acts through its owner: the
\* mark code leaves the canvas cell at the repr finger's position at 1, a
\* scene-finger code calls the scene finger's step, a repr-finger code
\* calls the repr finger's step.
C5_DispatchByName ==
    ret.op = "step" =>
        /\ actions_dict[ret.action] = "mod_point" =>
               /\ ret.called = "ext_repr"
               /\ Canvas[Pos(finger_layer_repr)] = 1
        /\ (\E i \in 1 .. 4 :
               actions_dict[ret.action] = FingerActions("scene")[i]) =>
               ret.called = "finger_layer_scene"
        /\ (\E i \in 1 .. 4 :
               actions_dict[ret.action] = FingerActions("repr")[i]) =>
               ret.called = "finger_layer_repr"

\* The position one cell from pos in the direction of the i-th finger
\* action (left, right, up, down), or pos on that edge of the grid.
Moved(pos, i, dim) ==
    CASE i = 1 -> << IF pos[1] > 0 THEN pos[1] - 1 ELSE pos[1], pos[2] >>
      [] i = 2 -> << IF pos[1] < dim - 1 THEN pos[1] + 1 ELSE pos[1], pos[2] >>
      [] i = 3 -> << pos[1], IF pos[2] > 0 THEN pos[2] - 1 ELSE pos[2] >>
      [] i = 4 -> << pos[1], IF pos[2] < dim - 1 THEN pos[2] + 1 ELSE pos[2] >>

\* C6: FingerLayer.step(code), for a code of that finger named after
\* direction d, moves the finger one cell in direction d, or leaves it
\* where it is on the edge of the grid in that direction.
C6_FingerMoves ==
    [][ /\ (ret'.op = "step" /\ ret'.called = "finger_layer_scene") =>
              \A i \in 1 .. 4 :
                  actions_dict[ret'.action] = FingerActions("scene")[i] =>
                      Pos(finger_layer_scene')
                          = Moved(Pos(finger_layer_scene), i, cfg.obs_dim)
        /\ (ret'.op = "step" /\ ret'.called = "finger_layer_repr") =>
              \A i \in 1 .. 4 :
                  actions_dict[ret'.action] = FingerActions("repr")[i] =>
                      Pos(finger_layer_repr')
                          = Moved(Pos(finger_layer_repr), i, cfg.obs_dim)
      ]_vars

\* C7: the position of each finger lies in [0, obs_dim - 1] x [0, obs_dim - 1]
\* after construction, after reset() and after every step().
C7_FingersInGrid ==
    /\ Pos(finger_layer_scene) \in Cells(cfg.obs_dim)
    /\ Pos(finger_layer_repr) \in Cells(cfg.obs_dim)

\* C7 witness: with random placement, step() has been called on a finger
\* that stands on the last column, with the code of the move to the right.
C7_Witness ==
    /\ cfg.random_finger_position
    /\ ret.op = "step"
    /\ ret.called = "finger_layer_repr"
    /\ actions_dict[ret.action] = "repr_right"
    /\ finger_layer_repr.pos_x = cfg.obs_dim - 1
    /\ finger_layer_repr.pos_y > 0

\* C8: every canvas cell holds 0 or 1; a step leaves a cell that is 1 at 1;
\* draw_point on a cell that is 1 leaves the canvas unchanged.
C8_CanvasMonotone ==
    /\ [](\A p \in Cells(cfg.obs_dim) : Canvas[p] \in {0, 1})
    /\ [][ ret'.op = "step" =>
              /\ \A p \in Cells(cfg.obs_dim) :
                     Canvas[p] = 1 => Canvas'[p] = 1
              /\ ret'.cell_before = 1 => Canvas' = Canvas
         ]_vars

\* C8 witness: draw_point has been called on a cell that was 1.
C8_Witness ==
    /\ ret.op = "step"
    /\ ret.called = "ext_repr"
    /\ ret.cell_before = 1

\* C9: step() returns done exactly when the reward policy returned
\* correct_label or the number of step() calls since the last reset() or
\* construction has reached max_episode_length.
C9_DoneIff ==
    ret.op = "step" =>
        (ret.done <=>
            (ret.correct_label \/ ret.calls >= cfg.max_episode_length))

\* C9 witness: a step has ended an episode with a correct label before the
\* episode reached max_episode_length.
C9_Witness ==
    /\ ret.op = "step"
    /\ ret.done
    /\ ret.correct_label
    /\ ret.calls < cfg.max_episode_length

\* C10: after reset() the canvas is all zeros, the step counter is 0, the
\* first-label flag is true, both fingers are at their initial position
\* ((0, 0) without random placement), the scene and the label are those of
\* a new generation, and the returned state is the composite state of this
\* configuration.
C10_ResetState ==
    ret.op = "reset" =>
        /\ Canvas = Zeros(cfg.obs_dim)
        /\ step_counter = 0
        /\ first_label_output = TRUE
        /\ Pos(finger_layer_scene)
               \in FingerInitPositions(cfg.obs_dim, cfg.random_finger_position)
        /\ Pos(finger_layer_repr)
               \in FingerInitPositions(cfg.obs_dim, cfg.random_finger_position)
        /\ ~ cfg.random_finger_position =>
               /\ Pos(finger_layer_scene) = <<0, 0>>
               /\ Pos(finger_layer_repr) = <<0, 0>>
        /\ \E gen \in GenerateObservation(cfg) :
               obs = gen.obs /\ obs_label = gen.obs_label
        /\ state = << obs,
                      OneHot(cfg.obs_dim, finger_layer_scene.pos_x,
                             finger_layer_scene.pos_y),
                      OneHot(cfg.obs_dim, finger_layer_repr.pos_x,
                             finger_layer_repr.pos_y),
                      Zeros(cfg.obs_dim) >>

\* C10 witness: reset() has been called after steps that marked the canvas.
C10_Witness ==
    /\ ret.op = "reset"
    /\ ret.counter_before > 0
    /\ ret.marked_before

\* The number of cells of a grid that hold 1.
Ones(grid) == Cardinality(Occupied(grid))

\* C11: whenever reset() or step() has returned, the composite state has
\* exactly four layers, in this order the scene, the scene finger layer,
\* the repr finger layer and the canvas as they are after the action, and
\* each finger layer holds a single 1, at the position of its finger, and
\* 0 everywhere else.
C11_StateIsFourLayers ==
    ret.op \in {"reset", "step"} =>
        /\ Len(state) = 4
        /\ state[1] = obs
        /\ state[2] = finger_layer_scene.fingerlayer
        /\ state[3] = finger_layer_repr.fingerlayer
        /\ state[4] = Canvas
        /\ \A layer \in {finger_layer_scene, finger_layer_repr} :
               /\ DOMAIN layer.fingerlayer = Cells(cfg.obs_dim)
               /\ \A p \in Cells(cfg.obs_dim) :
                      layer.fingerlayer[p] = IF p = Pos(layer) THEN 1 ELSE 0
               /\ Ones(layer.fingerlayer) = 1

\* C11 witness: a step() has marked a cell of the canvas that was blank,
\* on a grid of more than one cell, and has returned.
C11_Witness ==
    /\ ret.op = "step"
    /\ ret.called = "ext_repr"
    /\ ~ ret.marked_before
    /\ cfg.obs_dim > 1
    /\ Ones(state[4]) = 1
    /\ state[4] # obs

\* C12: _epsilon_greedy_action_selection with eps = 0 returns the argmax
\* of q_values for every q_values and every value of the random draw in
\* [0, 1), the draw 0.0 included.
C12_GreedyAtZero ==
    (sel.fn = "epsilon_greedy" /\ sel.eps = 0) =>
        sel.action = ArgMax(sel.q_values)

\* C13: _epsilon_greedy_action_selection with eps = 1 never takes the
\* argmax branch: for every draw the result is the uniformly drawn code,
\* every code of [0, n_actions) is a possible result, and no result lies
\* outside [0, n_actions).
C13_RandomAtOne ==
    (sel.fn = "epsilon_greedy" /\ sel.eps = 10) =>
        /\ sel.action = sel.rnd
        /\ sel.action \in 0 .. cfg.n_actions - 1
        /\ \A k \in 0 .. cfg.n_actions - 1 :
               \E rnd \in 0 .. cfg.n_actions - 1 :
                   EpsilonGreedyActionSelection(sel.q_values, sel.eps,
                                                sel.sample, rnd) = k

\* C13 witness: with eps = 1 and the largest draw, the last code has been
\* returned for a q vector whose argmax is another code.
C13_Witness ==
    /\ sel.fn = "epsilon_greedy"
    /\ sel.eps = 10
    /\ sel.sample = 9
    /\ sel.action = cfg.n_actions - 1
    /\ ArgMax(sel.q_values) # sel.action

\* C14: _softmax_action_selection with temperature 0 raises no error and
\* returns the action that epsilon-greedy selection with eps = 0 returns
\* on the same q_values.
C14_SoftmaxAtZeroIsGreedy ==
    (sel.fn = "softmax" /\ sel.temperature = 0) =>
        /\ sel.raised = "none"
        /\ \A sample \in { x \in Samples : x > 0 } :
               sel.action = EpsilonGreedyActionSelection(sel.q_values, 0,
                                                         sample, 0)

\* C15: _softmax_action_selection with a temperature below 0 raises an
\* error before it selects an action, returns no action code, and leaves
\* the fingers, the canvas and the step counter as they are.
C15_NegativeTemperatureRaises ==
    /\ [](sel.fn = "softmax" /\ sel.temperature < 0 =>
              /\ sel.raised = "Exception"
              /\ sel.action = -1
              /\ sel.rnd = 0)
    /\ [][(sel' # sel /\ sel'.fn = "softmax" /\ sel'.temperature < 0) =>
              UNCHANGED << finger_layer_scene, finger_layer_repr, ext_repr,
                           step_counter, state >>]_vars

\* C15 witness: _softmax_action_selection has been called with
\* temperature -1 and a q vector with a peak, and has raised.
C15_Witness ==
    /\ sel.fn = "softmax"
    /\ sel.temperature = -1
    /\ sel.raised # "none"
    /\ ArgMax(sel.q_values) > 0

\* The last call of the environment was a step() that chose a label.
LabelChosen == ret.op = "step" /\ ret.action \in NumericLabelCodes(actions_dict)

RECURSIVE SumOver(_, _)
SumOver(f, S) ==
    IF S = {} THEN 0
    ELSE LET k == CHOOSE x \in S : TRUE
         IN  f[k] + SumOver(f, S \ {k})

\* This step of the model is an environment step of training_loop.
IsTrainStep == loop'.pushes = loop.pushes + 1

\* C17: with curiosity, every environment step adds exactly 1 to the
\* visit count of exactly one state key and changes no other key; no
\* reset(), end of episode or change of phase changes a count; so the
\* counts add up to the number of steps made so far.
C17_VisitCounts ==
    /\ [][ IF IsTrainStep /\ reward.curiosity
           THEN \E key \in DOMAIN visit_history' :
                   /\ key = StateHash(state)
                   /\ visit_history'[key] = Count(visit_history, key) + 1
                   /\ DOMAIN visit_history' = DOMAIN visit_history \cup {key}
                   /\ \A k \in DOMAIN visit_history' \ {key} :
                          visit_history'[k] = visit_history[k]
           ELSE visit_history' = visit_history ]_vars
    /\ [](reward.curiosity =>
              SumOver(visit_history, DOMAIN visit_history) = loop.pushes)

\* C17 witness: in the second phase a step has counted a visit, and the
\* history holds a key of the first phase with two visits.
C17_Witness ==
    /\ reward.curiosity
    /\ loop.n_objects = 2
    /\ ret.op = "step"
    /\ Cardinality(DOMAIN visit_history) >= 2
    /\ \E k \in DOMAIN visit_history : visit_history[k] = 2

\* C18: the curiosity bonus of a step is computed from the visit count
\* the state key had before the step counted its visit: with bending 0.4
\* and scale 0.1 it is 0.1 at the first visit and (0.4 / 1.4) * 0.1 at
\* the second, and it is strictly decreasing in the number of prior
\* visits.
C18_CuriosityBonus ==
    /\ [][ (IsTrainStep /\ reward.curiosity) =>
               /\ ret'.n_visits = Count(visit_history, StateHash(state))
               /\ ret'.bonus = GetCuriosityReward(ret'.n_visits, Bending,
                                                  Scale) ]_vars
    /\ []((ret.op = "step" /\ reward.curiosity) =>
              /\ ret.n_visits = 0 => FracEq(ret.bonus, Frac(1, 10))
              /\ ret.n_visits = 1 => FracEq(ret.bonus, Frac(4, 140))
              /\ \A n \in 0 .. ret.n_visits :
                     FracLess(GetCuriosityReward(n + 1, Bending, Scale),
                              GetCuriosityReward(n, Bending, Scale)))

\* C18 witness: a step has visited a state for the second time.
C18_Witness ==
    /\ reward.curiosity
    /\ ret.op = "step"
    /\ ret.n_visits = 1
    /\ FracLess(ret.bonus, Frac(1, 10))

\* The smaller of two numbers.
Min(a, b) == IF a < b THEN a ELSE b

\* The push numbers of the transitions in the replay memory.
Held == { replay_memory.memory[i].pushed : i \in DOMAIN replay_memory.memory }

\* C19: the replay memory never holds more than capacity transitions;
\* after n pushes it holds the min(n, capacity) transitions pushed last,
\* so that after capacity + k pushes, k >= 1, the k oldest are gone,
\* whatever was sampled in between.
C19_RingBuffer ==
    /\ Len(replay_memory.memory) <= replay_memory.capacity
    /\ Len(replay_memory.memory) = Min(loop.pushes, replay_memory.capacity)
    /\ Held = (loop.pushes - Len(replay_memory.memory) + 1) .. loop.pushes
    /\ loop.pushes > replay_memory.capacity => 1 \notin Held

\* C19 witness: more transitions than the capacity of two have been
\* pushed, and a batch has been sampled before the last push.
C19_Witness ==
    /\ replay_memory.capacity = 2
    /\ loop.pushes > replay_memory.capacity
    /\ loop.policy_net >= 2

\* C20: when the replay memory holds fewer than batch_size transitions
\* the optimization step is skipped: no update of the parameters, no loss
\* logged, the memory as it was, and the loop goes on; when it holds
\* batch_size or more, the sample is batch_size distinct stored entries.
C20_SkipOrSample ==
    loop.pushes > 0 =>
        /\ loop.opt.occupancy = Len(replay_memory.memory)
        /\ loop.opt.occupancy < hp.batch_size =>
               /\ ~ loop.opt.updated
               /\ ~ loop.opt.logged
               /\ loop.opt.batch = {}
               /\ loop.opt.memory_kept
               /\ loop.pc \in {"step", "episode_end", "episode",
                                "returned", "call"}
        /\ loop.opt.occupancy >= hp.batch_size =>
               /\ Cardinality(loop.opt.batch) = hp.batch_size
               /\ loop.opt.batch \subseteq DOMAIN replay_memory.memory

\* C20 witness: an optimization step has been skipped, the loop has gone
\* on, and a later optimization step has sampled a batch of two.
C20_Witness ==
    /\ hp.batch_size = 2
    /\ loop.pushes >= 2
    /\ loop.policy_net = loop.pushes - 1
    /\ loop.logged = loop.policy_net
    /\ Cardinality(loop.opt.batch) = 2

\* C21: n_iter carries over the phases: it grows by exactly 1 with every
\* environment step and is changed by nothing else, so that it starts a
\* phase with the value it had at the end of the phase before; whenever
\* training_loop has returned, CL_settings["n_iter"] is the number of
\* environment steps of all phases so far; and the replay memory is the
\* same object in every phase.
C21_CounterCarriesOver ==
    /\ [][ /\ IsTrainStep => loop'.n_iter = loop.n_iter + 1
           /\ ~ IsTrainStep =>
                  /\ loop'.n_iter = loop.n_iter
                  /\ replay_memory' = replay_memory ]_vars
    /\ [](loop.pc = "returned" => loop.CL_n_iter = loop.pushes)
    /\ [](replay_memory.capacity = hp.replay_memory_capacity)

\* C21 witness: the last phase has returned after steps in two phases,
\* and the replay memory still holds the first transition of the first
\* phase.
C21_Witness ==
    /\ loop.pc = "returned"
    /\ loop.n_objects = hp.max_CL_objects
    /\ loop.n_objects > 1
    /\ loop.CL_n_iter >= 2
    /\ 1 \in Held

\* C22: within a call of training_loop the parameters of the target
\* predictor become a copy of those of the policy predictor at the end of
\* episode e exactly when e is a multiple of target_update, episode 0
\* included, and they change at no other moment, also not when the
\* policy parameters are optimized.
C22_TargetSync ==
    [][ IF loop.pc = "episode_end" /\ loop'.pc = "episode"
        THEN /\ loop.episode % hp.target_update = 0 =>
                    loop'.target_net = loop.policy_net
             /\ loop.episode % hp.target_update # 0 =>
                    loop'.target_net = loop.target_net
        ELSE loop'.target_net = loop.target_net ]_vars

\* C22 witness: episode 1 has ended without a copy, after the copy at
\* the end of episode 0 and an update of the policy parameters since.
C22_Witness ==
    /\ loop.pc = "episode"
    /\ loop.episode = 2
    /\ hp.target_update = 2
    /\ loop.target_net >= 1
    /\ loop.policy_net > loop.target_net

\* C23 as stated: every scene generated with obs_dim = 4,
\* max_episode_objects = 2 and max_object_size = 1 has exactly two occupied
\* cells that share no edge, and obs_label is 2.
C23_TwoCellsAlways ==
    (ret.op \in {"init", "reset"} /\ cfg \in ScenarioConfigs) =>
        /\ Cardinality(Occupied(obs)) = 2
        /\ \A p \in Occupied(obs) : \A q \in Occupied(obs) :
               q \notin Neighbours(p)
        /\ obs_label = 2

\* C23: a scene generated with obs_dim = 4, max_episode_objects = 2,
\* max_object_size = 1 and a fixed number of objects (generate_random_nobj
\* not set) has exactly two occupied cells that share no edge, and obs_label
\* is 2; with a random number of objects it has one or two such cells and
\* obs_label is their number.
C23_TwoIsolatedCells ==
    (ret.op \in {"init", "reset"} /\ cfg \in ScenarioConfigs) =>
        /\ \A p \in Occupied(obs) : \A q \in Occupied(obs) :
               q \notin Neighbours(p)
        /\ obs_label = Cardinality(Occupied(obs))
        /\ obs_label = ret.n_objects
        /\ IF cfg.generate_random_nobj
           THEN obs_label \in {1, 2}
           ELSE obs_label = 2

\* C23 witness: a reset() with a fixed number of objects has generated a
\* scene of two cells of one row that are two columns apart.
C23_Witness ==
    /\ ret.op = "reset"
    /\ cfg = ScenarioConfig(FALSE, TRUE)
    /\ Occupied(obs) = { << 0, 0 >>, << 0, 2 >> }
    /\ obs_label = 2

\* C24: a scene generation that finds no window for a square of any size
\* down to 1 ends without an exception: it warns once, places no further
\* square, and leaves the squares placed so far with obs_label their
\* number; the first square is always placed, so obs_label is at least 1
\* and at most max_episode_objects.
C24_EarlyEndingDegrades ==
    ret.op \in {"init", "reset"} =>
        /\ ret.warnings = (IF committed < ret.n_objects THEN 1 ELSE 0)
        /\ obs_label = Cardinality(squares)
        /\ Occupied(obs) = UNION squares
        /\ obs_label >= 1
        /\ obs_label <= ret.n_objects
        /\ ret.n_objects <= cfg.max_episode_objects

\* C24 witness: a reset() has warned after it had placed two of three
\* requested squares.
C24_Witness ==
    /\ ret.op = "reset"
    /\ ret.warnings = 1
    /\ ret.n_objects = 3
    /\ obs_label = 2
    /\ Cardinality(squares) = 2

\* The codes that no component owns.
Unclaimed ==
    { k \in DOMAIN actions_dict :
        k \notin ext_repr.action_codes \cup finger_layer_scene.action_codes
                 \cup finger_layer_repr.action_codes }

\* The names of the nine movement and mark actions.
NamedActionNames ==
    { "mod_point" } \cup { FingerActions("scene")[i] : i \in 1 .. 4 }
                   \cup { FingerActions("repr")[i] : i \in 1 .. 4 }

\* C25: after construction with n_actions = 9 the table names the nine
\* codes with the four scene-finger moves, the four repr-finger moves and
\* the canvas mark, and has no numeric label; for n_actions >= 9 there are
\* n_actions - 9 numeric labels and the j-th smallest code that no component
\* claimed is named str(j).
C25_LabelsFillTheRest ==
    (ret.op = "init" /\ cfg.n_actions >= NamedActions) =>
        /\ Cardinality(finger_layer_scene.action_codes) = 4
        /\ Cardinality(finger_layer_repr.action_codes) = 4
        /\ Cardinality(ext_repr.action_codes) = 1
        /\ { actions_dict[k] : k \in DOMAIN actions_dict \ Unclaimed }
               = NamedActionNames
        /\ NumericLabelCodes(actions_dict) = Unclaimed
        /\ Cardinality(Unclaimed) = cfg.n_actions - NamedActions
        /\ \A k \in Unclaimed :
               actions_dict[k]
                   = Str(Cardinality({ u \in Unclaimed : u <= k }))
        /\ cfg.n_actions = NamedActions =>
               /\ NumericLabelCodes(actions_dict) = {}
               /\ \A k \in 0 .. 8 : actions_dict[k] \in NamedActionNames

\* C25 witness: an environment has been constructed with nine codes, the
\* last of them a move of the repr finger.
C25_Witness ==
    /\ ret.op = "init"
    /\ cfg.n_actions = NamedActions
    /\ actions_dict[8] = "repr_down"
    /\ Unclaimed = {}

\* C26 as stated: construction with n_actions < 9 gives the canvas and the
\* scene finger all their declared codes (1 and 4) and the repr finger the
\* codes that remain, no code twice and no numeric label.
C26_EarlierComponentsComplete ==
    (ret.op = "init" /\ cfg.n_actions < NamedActions) =>
        /\ Cardinality(ext_repr.action_codes) = 1
        /\ Cardinality(finger_layer_scene.action_codes) = 4
        /\ Cardinality(finger_layer_repr.action_codes) = cfg.n_actions - 5
        /\ \A k \in DOMAIN actions_dict : Owners(k) = 1
        /\ NumericLabelCodes(actions_dict) = {}

\* C26: construction with n_actions < 9 succeeds, and the canvas, the scene
\* finger and the repr finger, in this order, each receive the lowest codes
\* still empty, as many as they declare (1, 4, 4) or as many as remain,
\* possibly none; every code has exactly one owner and a name of a move or
\* of the mark, and no code is a numeric label.
C26_SilentTruncation ==
    (ret.op = "init" /\ cfg.n_actions < NamedActions) =>
        /\ DOMAIN actions_dict = 0 .. cfg.n_actions - 1
        /\ ext_repr.action_codes = 0 .. Min(1, cfg.n_actions) - 1
        /\ finger_layer_scene.action_codes
               = Min(1, cfg.n_actions) .. Min(5, cfg.n_actions) - 1
        /\ finger_layer_repr.action_codes
               = Min(5, cfg.n_actions) .. cfg.n_actions - 1
        /\ \A k \in ext_repr.action_codes : actions_dict[k] = "mod_point"
        /\ \A k \in finger_layer_scene.action_codes :
               actions_dict[k] = FingerActions("scene")[k]
        /\ \A k \in finger_layer_repr.action_codes :
               actions_dict[k] = FingerActions("repr")[k - 4]
        /\ \A k \in DOMAIN actions_dict : Owners(k) = 1
        /\ NumericLabelCodes(actions_dict) = {}

\* C26 witness: an environment has been constructed with seven codes, two
\* of them for the repr finger.
C26_Witness ==
    /\ ret.op = "init"
    /\ cfg.n_actions = 7
    /\ finger_layer_repr.action_codes = {5, 6}
    /\ actions_dict[6] = "repr_right"

\* C27: every episode ends.  The step counter never exceeds
\* max_episode_length; after reset() the number of step() calls is the step
\* counter, a step that brings it to max_episode_length returns done,
\* whatever the actions were, and every episode that reset() has started
\* reaches a step that returns done.
C27_EpisodesEnd ==
    /\ [](step_counter <= cfg.max_episode_length)
    /\ [](ret.op = "step" =>
              /\ ret.calls = step_counter
              /\ step_counter = cfg.max_episode_length => ret.done)
    /\ [][ ret.done => (ret'.op = "reset" /\ step_counter' = 0) ]_vars
    /\ (ret.op = "reset") ~> ret.done

\* C27 witness: an episode of two steps or more has ended by its length,
\* with a step that selected a move of the scene finger.
C27_Witness ==
    /\ ret.op = "step"
    /\ ret.done
    /\ ~ ret.correct_label
    /\ ret.calls = cfg.max_episode_length
    /\ ret.calls >= 2
    /\ ret.action = 1

\* The transition in the replay memory rm that was pushed as number n.
Pushed(rm, n) ==
    rm.memory[CHOOSE i \in DOMAIN rm.memory : rm.memory[i].pushed = n]

\* The number of the sub-components (scene finger, repr finger, canvas)
\* that this step changes.
Mutated ==
    (IF finger_layer_scene' # finger_layer_scene THEN 1 ELSE 0)
    + (IF finger_layer_repr' # finger_layer_repr THEN 1 ELSE 0)
    + (IF ext_repr' # ext_repr THEN 1 ELSE 0)

C29_TerminalNextState ==
    /\ [][ IsTrainStep =>
             LET t == Pushed(replay_memory', loop'.pushes)
             IN  /\ (t.next_state = None) <=> ret'.done
                 /\ ~ ret'.done =>
                        /\ t.next_state = state'
                        /\ loop'.state = state'
                        /\ loop'.pc = "step"
                 /\ t.state = loop.state
                 /\ ret.op = "reset" => t.state = state ]_vars
    /\ [][ (loop.pc = "episode" /\ loop'.pc = "step") =>
               (ret'.op = "reset" /\ loop'.state = state') ]_vars
    /\ [](\A i \in DOMAIN replay_memory.memory :
           \A j \in DOMAIN replay_memory.memory :
              (/\ replay_memory.memory[j].pushed
                      = replay_memory.memory[i].pushed + 1
               /\ replay_memory.memory[i].next_state # None) =>
                  replay_memory.memory[j].state
                      = replay_memory.memory[i].next_state)

\* C29 witness: the memory holds the two transitions of an episode of two
\* steps, the first not terminal and the second terminal.
C29_Witness ==
    /\ Len(replay_memory.memory) = 2
    /\ replay_memory.memory[1].pushed = 1
    /\ replay_memory.memory[2].pushed = 2
    /\ replay_memory.memory[1].next_state # None
    /\ replay_memory.memory[2].state = replay_memory.memory[1].next_state
    /\ replay_memory.memory[2].next_state = None
    /\ loop.pc = "episode_end"

\* C30: the index passed to step() for the decay of eps is the same in
\* all passes of one episode and is larger by exactly 1 in the first pass
\* of the next episode of the phase.
C30_EpisodeIndexPassed ==
    [][ IsTrainStep =>
          IF ret.op = "step"
          THEN loop'.n_episode = loop.n_episode
          ELSE loop.episode > 0 => loop'.n_episode = loop.n_episode + 1 ]_vars

\* C31: scene generation terminates.  The size of an object is decremented
\* at most as often as its first size says; whenever the size fits, some
\* upper left point that the sampler can draw passes the point check and
\* gives a square that passes the check of the whole square; and, the
\* sampler drawing every point again and again, the generation returns,
\* with a scene that the generation as a whole can give.
C31_GenerationReturns ==
    /\ [](generation.decrements <= generation.initial_size)
    /\ [](generation.pc \in {"point", "square"} =>
              \E sq \in GenerateSquare(
                            cfg.obs_dim, generation.object_size,
                            generation.picture_objects_coordinates) :
                 ValidPicture(generation.picture_objects_coordinates, sq))
    /\ [](generation.pc = "returned" =>
              \E r \in GenTable[cfg] :
                 /\ r.obs = obs
                 /\ r.obs_label = obs_label
                 /\ r.squares = squares)
    /\ <>(generation.pc = "returned")

\* C31 witness: a generation has returned after it had shrunk a size,
\* with two squares, one of them larger than a cell.
C31_Witness ==
    /\ generation.pc = "returned"
    /\ generation.warnings = 0
    /\ generation.decrements > 0
    /\ Cardinality(squares) = 2
    /\ \E sq \in squares : Cardinality(sq) > 1

\* The codes whose name is the decimal string of obs_label.
CorrectLabelCodes ==
    { k \in DOMAIN actions_dict : actions_dict[k] = Str(obs_label) }

\* C32: with at least as many labels as objects per scene (n_actions >=
\* 9 + max_episode_objects, as in every phase of the curriculum), after
\* construction and after every reset() exactly one code is named by the
\* decimal string of obs_label, and it is the code 8 + obs_label.
C32_OneCorrectLabel ==
    (/\ ret.op \in {"init", "reset"}
     /\ cfg.n_actions - NamedActions >= cfg.max_episode_objects) =>
        /\ Cardinality(CorrectLabelCodes) = 1
        /\ CorrectLabelCodes = { NamedActions - 1 + obs_label }

\* C32 witness: a reset() has generated a scene of two objects, one of
\* them larger than a cell, out of a random number of at most two, and
\* the last code is the label "2".
C32_Witness ==
    /\ ret.op = "reset"
    /\ cfg.generate_random_nobj
    /\ cfg.max_episode_objects = 2
    /\ cfg.n_actions = NamedActions + 2
    /\ obs_label = 2
    /\ Cardinality(Occupied(obs)) > 2
    /\ CorrectLabelCodes = {10}

\* The name of the code is one of the four moves of the finger layer.
NamesMoveOf(layer_name, code) ==
    \E i \in 1 .. 4 : actions_dict[code] = FingerActions(layer_name)[i]

\* C33: a step() changes neither the scene nor its label; a step with a
\* numeric label leaves both fingers and the canvas as they are, a step
\* with a move of the scene finger leaves the repr finger and the canvas,
\* a step with a move of the repr finger leaves the scene finger and the
\* canvas, and a step with the mark leaves both fingers and every cell of
\* the canvas but the one at the repr finger's position.
C33_StepFrame ==
    [][ (ret'.op = "step" /\ step_counter' = step_counter + 1) =>
          /\ obs' = obs
          /\ obs_label' = obs_label
          /\ squares' = squares
          /\ state'[1] = obs
          /\ ret'.action \in NumericLabelCodes(actions_dict) =>
                 /\ finger_layer_scene' = finger_layer_scene
                 /\ finger_layer_repr' = finger_layer_repr
                 /\ ext_repr' = ext_repr
          /\ NamesMoveOf("scene", ret'.action) =>
                 /\ finger_layer_repr' = finger_layer_repr
                 /\ ext_repr' = ext_repr
          /\ NamesMoveOf("repr", ret'.action) =>
                 /\ finger_layer_scene' = finger_layer_scene
                 /\ ext_repr' = ext_repr
          /\ actions_dict[ret'.action] = "mod_point" =>
                 /\ finger_layer_scene' = finger_layer_scene
                 /\ finger_layer_repr' = finger_layer_repr
                 /\ \A p \in Cells(cfg.obs_dim) :
                        p # Pos(finger_layer_repr) => Canvas'[p] = Canvas[p]
      ]_vars

\* C33 witness: with random placement, a step() has marked the blank cell
\* under the repr finger, away from the corner, in a scene of two cells
\* or more.
C33_Witness ==
    /\ ret.op = "step"
    /\ cfg.random_finger_position
    /\ ret.called = "ext_repr"
    /\ ret.cell_before = 0
    /\ Pos(finger_layer_repr) # << 0, 0 >>
    /\ Occupied(Canvas) = { Pos(finger_layer_repr) }
    /\ Ones(obs) >= 1

\* C34: a call of training_loop with CL_settings = None raises no error,
\* neither in the step loop nor at the end of the call.
C34_DefaultCallReturns ==
    loop.CL_settings_is_None =>
        /\ loop.raised = "none"
        /\ loop.pc # "raised"


=============================================================================
